---- MODULE Spec2Model ----
(***************************************************************************)
(* The transactional persisted-state subsystem of iron-manager:            *)
(*   - Lock                  (logger.ts, abstract class Lock)              *)
(*   - IronLock              (logger.ts, IronLogger.dataManager)           *)
(*   - DeploymentActivityLock(logger.ts, DeploymentActivityLogger)         *)
(*   - distributeIron        (iron-manager.ts) with the username codec     *)
(*                                                                         *)
(* JavaScript runs one task at a time: an action of this module is the     *)
(* code a handler executes between two suspension points (await).  A key   *)
(* is a crypto.randomUUID(): the n-th UUID generated is the integer n.     *)
(* The empty string '' (no holder) is NoKey.                               *)
(***************************************************************************)
EXTENDS Integers, Sequences, FiniteSets, TLC

(***************************************************************************)
(* Bounds of the model.                                                    *)
(***************************************************************************)
MaxCalls == 4            \* lock() calls made in one run of the Lock alone
MaxStoreCalls == 2       \* lock() calls made in one run of a store
MaxDay   == 8            \* last calendar day the clock reaches
MaxNum   == 1            \* cap of numDeployments under the direct callers
MaxNow   == 2            \* last instant the session clock reaches
MaxLog   == 2            \* log lines after which no handler appends another
MaxHandlerCalls == 1     \* lock() calls a handler makes in one run of the session store
MaxRecoveries == 2       \* runRecovery calls made in one run
MaxNameLen == 30         \* longest name passed to createUsername
MaxWeeks == 3            \* weeks of instants calcCurWeekTimestamp is called at
DayLength == 4           \* instants of the clock told apart in one day

(***************************************************************************)
(* Program constants.                                                      *)
(***************************************************************************)
NoKey   == 0             \* Lock.locked = '' : nobody holds the lock
NoTimer == 0             \* Lock.timeout = null
Null    == 0             \* joined: null
NoLog   == 0             \* started: ''
StartDay == 6            \* the day the process is constructed (a Sunday)

Stores  == {"iron", "dep"}
Callers == {"c1", "c2", "c3"}
StoreCallers == {"c1", "c2"}
CallMembers == {"m1"}
CallLists == {<<>>, <<"m1">>}
Batches == {"b1", "b2"}
Recovery == "rec"        \* the runRecovery call
VoiceHandlers == {"v1"}  \* the calls of deployment_voice_monitor.execute
Procs   == Callers \cup Batches \cup {Recovery} \cup VoiceHandlers
Members == {"m1", "m2"}
Types   == {"deployment", "commendation"}

\* Keys a caller can present that no lock() ever returned.
ForeignKeys == {-1}

VARIABLES
    alive,        \* "up" | "fatal" (unhandled rejection raised) | "down"
    uuid,         \* number of UUIDs generated so far
    lock,         \* [Stores -> Lock instance]
    pc,           \* [Procs -> position of the async function]
    inflight,     \* [Procs -> the key its pending lock() promise resolved with]
    grants,       \* history: every return of lock(): [t: ticket, key: key]
    released,     \* history: keys whose grant was released or expired
    calls,        \* history: number of lock() calls made
    ticket,       \* history: [Procs -> sequence number of its lock() call]
    lastGranted,  \* history: [Stores -> ticket of the latest grant]
    target,       \* the store the direct callers work on in this run
    day,          \* calendar day (UTC), day 0 is a Monday
    iron,         \* IronLock.iron     (in memory)
    ironFile,     \* storage/iron.json (persisted)
    devMode,      \* process.env.DEV_MODE
    now,          \* Date.now(), in clock units
    act,          \* DeploymentActivityLock.activityRecords (in memory)
    actFile,      \* storage/deployment-voice.json (persisted)
    recoveryRequired, \* DeploymentActivityLock.recoveryRequired
    present,      \* environment: members in a voice channel of the category
    starting,     \* the startDeployment call suspended at its awaits, if any
    depLog,       \* storage/deployment-logs: number of lines appended so far
    rec,          \* the locals of the runRecovery call, and how many were made
    event,        \* [VoiceHandlers -> the voice state update it handles]
    lastCall,     \* the call made by the last step, NoCall if it made none
    batch,        \* [Batches -> the locals of its distributeIron call]
    displayName,  \* environment: [Members -> member.displayName]
    roles,        \* environment: [Members -> the ids in member.roles.cache]
    manageable,   \* environment: [Members -> member.manageable]
    origName,     \* history: displayName at the start
    issuedLog,    \* history: the grants written, [b: batch, m: member, cat: category]
    codec,        \* a createUsername call and the parseUsername call on its result
    week          \* a calcCurWeekTimestamp call: the instant of the clock, the result

lockVars == <<uuid, lock, pc, inflight, grants, released, calls, ticket, lastGranted>>
ironVars == <<iron, ironFile>>
depVars == <<now, act, actFile, recoveryRequired, present, starting, depLog, rec, event>>
distVars == <<batch, displayName, roles, manageable, origName, issuedLog>>
vars == <<alive, lockVars, target, day, ironVars, devMode, depVars, lastCall, distVars, codec,
          week>>

(***************************************************************************)
(* Lock                                                                    *)
(***************************************************************************)
\* A Lock instance: locked, waiting (resolvers, by waiter), timeout (the
\* handle kept in this.timeout) and timers (the setTimeout callbacks of this
\* instance that node still holds armed).  A timer's handle is the key of
\* the grant that armed it.
NewLock == [locked |-> NoKey, waiting |-> <<>>, timeout |-> NoTimer, timers |-> {}]

\* Mutant: any key is accepted while the lock is held.
TryKeyAnyKey(L, key) == L.locked # NoKey

\* tryKey returns silently (TRUE) or throws (FALSE).
TryKey(L, key) == ~(L.locked = NoKey \/ L.locked # key)

\* this.locked = crypto.randomUUID(); this.timeout = setTimeout(...)
Grant(L, k) == [L EXCEPT !.locked = k, !.timeout = k, !.timers = @ \cup {k}]

\* Mutant: this.timeout is forgotten without clearTimeout.
ForgetTimeout(L) == [L EXCEPT !.timeout = NoTimer]

\* if (this.timeout) { clearTimeout(this.timeout); this.timeout = null; }
ClearTimeout(L) ==
    IF L.timeout # NoTimer
    THEN [L EXCEPT !.timers = @ \ {L.timeout}, !.timeout = NoTimer]
    ELSE L

\* Mutant: this.waiting.pop().
Pop(W) == <<W[Len(W)], SubSeq(W, 1, Len(W) - 1)>>

\* this.waiting.shift(): the resolver taken and the queue left.
Shift(W) == <<Head(W), Tail(W)>>

\* Lock.lock(), synchronous part, called by waiter w; k is the next UUID.
LockLock(L, w, k) ==
    IF L.locked # NoKey
    THEN [L EXCEPT !.waiting = Append(@, w)]
    ELSE Grant(L, k)

\* Mutant: the waiter is handed the key of the grant being released.
LockUnlockSameKey(L, k) ==
    LET C == ClearTimeout(L) IN
    IF Len(C.waiting) > 0
    THEN Grant([C EXCEPT !.waiting = Shift(@)[2]], L.locked)
    ELSE [C EXCEPT !.locked = NoKey]

\* Mutant: the lock is unlocked whether or not a caller waits.
LockUnlockLeavesWaiter(L, k) == [ClearTimeout(L) EXCEPT !.locked = NoKey]

\* Lock.unlock(key) after tryKey passed; k is the next UUID.
LockUnlock(L, k) ==
    LET C == ClearTimeout(L) IN
    IF Len(C.waiting) > 0
    THEN Grant([C EXCEPT !.waiting = Shift(@)[2]], k)
    ELSE [C EXCEPT !.locked = NoKey]

(***************************************************************************)
(* IronLock                                                                *)
(***************************************************************************)
\* Luxon weekday of a day: 1 = Monday ... 7 = Sunday.
Weekday(d) == (d % 7) + 1

\* now.set({weekday: 2}): the Tuesday of d's ISO week (which starts Monday).
SetWeekdayTuesday(d) == (d - (d % 7)) + 1

\* Mutant: the step back from a Monday is left out.
CalcCurWeekTimestampNoMonday(d) == SetWeekdayTuesday(d)

\* calcCurWeekTimestamp with the clock at day d.
CalcCurWeekTimestamp(d) ==
    LET startOfDay == IF Weekday(d) = 1 THEN d - 1 ELSE d
    IN  SetWeekdayTuesday(startOfDay)

\* Luxon.DateTime.utc().startOf('day') at instant t, as a day; toMillis of
\* the midnight of day d, as an instant.
StartOfDay(t) == t \div DayLength
ToMillis(d) == d * DayLength

\* A calcCurWeekTimestamp call made at an instant of the clock.
NewWeek(t) == [at |-> "clock", instant |-> t, result |-> 0]
NoWeek == [at |-> "none", instant |-> 0, result |-> 0]

NewLog == [numDeployments |-> 0, deployment |-> FALSE, commendation |-> FALSE]

\* Mutant: the timestamp advances, the records are kept.
ValidateDataKeepsRecords(I, F, d) ==
    LET J == [I EXCEPT !.weekTimestamp = CalcCurWeekTimestamp(d)]
    IN  IF I.weekTimestamp = J.weekTimestamp THEN <<I, F>> ELSE <<J, J>>

\* validateData after tryKey passed: the ledger and the file afterwards.
ValidateData(I, F, d) ==
    LET weekStart == CalcCurWeekTimestamp(d) IN
    IF I.weekTimestamp = weekStart
    THEN <<I, F>>
    ELSE LET J == [weekTimestamp |-> weekStart, members |-> << >>]
         IN  <<J, J>>

\* readIron: this.iron.members[memberID] || {numDeployments: 0}
ReadIronValue(I, m) == IF m \in DOMAIN I.members THEN I.members[m] ELSE NewLog

Range(s) == {s[i] : i \in 1..Len(s)}
Occurrences(s, x) == Cardinality({i \in 1..Len(s) : s[i] = x})

\* writeIron's loop over members for type t.
WriteIronValue(I, members, t) ==
    [I EXCEPT !.members =
        [m \in (DOMAIN I.members) \cup Range(members) |->
            LET old == ReadIronValue(I, m) IN
            IF m \in Range(members)
            THEN IF t = "deployment"
                 THEN [old EXCEPT !.deployment = TRUE]
                 ELSE [old EXCEPT !.commendation = TRUE]
            ELSE old]]

\* incrementDeploymentTracker's loop over members.
IncrementValue(I, members) ==
    [I EXCEPT !.members =
        [m \in (DOMAIN I.members) \cup Range(members) |->
            LET old == ReadIronValue(I, m) IN
            [old EXCEPT !.numDeployments = @ + Occurrences(members, m)]]]

\* resetIron's new document.
ResetIronValue(d) == [weekTimestamp |-> CalcCurWeekTimestamp(d), members |-> << >>]

(***************************************************************************)
(* DeploymentActivityLock                                                  *)
(***************************************************************************)
OperationNames == {"op"}

\* The document of the constructor and of resetJSON.
NewActivity == [active |-> FALSE, operationName |-> "", started |-> NoLog,
                members |-> << >>]

NewRecord == [joined |-> Null, totalTime |-> 0]

\* if (!this.activityRecords.members[memberId]) members[memberId] = {joined: null, totalTime: 0}
EnsureRecord(A, m) ==
    IF m \in DOMAIN A.members
    THEN A
    ELSE [A EXCEPT !.members = [x \in (DOMAIN A.members) \cup {m} |->
                                  IF x = m THEN NewRecord ELSE A.members[x]]]

\* Mutant: the time of the last stay replaces the total.
CloseRecordOverwrites(r, t) == [joined |-> Null, totalTime |-> t - r.joined]

\* totalTime += t - joined; joined = null
CloseRecord(r, t) == [joined |-> Null, totalTime |-> r.totalTime + (t - r.joined)]

\* Mutant: a join starts the member's total anew.
ReportJoinResetsTotal(A, m, t) ==
    LET B == EnsureRecord(A, m) IN
    IF B.members[m].joined # Null
    THEN <<B, TRUE>>
    ELSE <<[B EXCEPT !.members[m] = [joined |-> t, totalTime |-> 0]], FALSE>>

\* reportJoin after tryKey: <<document in memory, thrown>>.
ReportJoinValue(A, m, t) ==
    LET B == EnsureRecord(A, m) IN
    IF B.members[m].joined # Null
    THEN <<B, TRUE>>
    ELSE <<[B EXCEPT !.members[m].joined = t], FALSE>>

\* reportLeave after tryKey: <<document in memory, thrown>>.
ReportLeaveValue(A, m, t) ==
    LET B == EnsureRecord(A, m) IN
    IF B.members[m].joined = Null
    THEN <<B, TRUE>>
    ELSE <<[B EXCEPT !.members[m] = CloseRecord(@, t)], FALSE>>

\* Mutant: the open members are left open.
EndDeploymentKeepsOpen(A, endTime) == [A EXCEPT !.active = FALSE]

\* endDeployment after its checks: every open member is closed at endTime.
EndDeploymentValue(A, endTime) ==
    [A EXCEPT !.active = FALSE,
              !.members = [m \in DOMAIN A.members |->
                             IF A.members[m].joined # Null
                             THEN CloseRecord(A.members[m], endTime)
                             ELSE A.members[m]]]

\* startDeployment after its awaits: the log is opened, the members found in
\* the voice channels (P) are seeded, the session is marked active.
StartDeploymentValue(A, name, P, t) ==
    LET S == [A EXCEPT !.started = t]
        seeded == [m \in (DOMAIN S.members) \cup P |->
                     LET r == IF m \in DOMAIN S.members THEN S.members[m] ELSE NewRecord
                     IN  IF m \in P /\ r.joined = Null
                         THEN [r EXCEPT !.joined = t]
                         ELSE r]
    IN  [S EXCEPT !.members = seeded, !.operationName = name, !.active = TRUE]

\* MINIMUM_TIME_TO_QUALIFY, one hour, in clock units of half an hour.
MINIMUM_TIME_TO_QUALIFY == 2

\* Mutant: the threshold itself does not qualify.
GetQualifiedMembersAbove(A, t) ==
    LET time(r) == r.totalTime + IF r.joined # Null THEN t - r.joined ELSE 0
    IN  [qualified |-> {m \in DOMAIN A.members :
                          time(A.members[m]) > MINIMUM_TIME_TO_QUALIFY},
         particpated |-> {m \in DOMAIN A.members :
                            ~(time(A.members[m]) > MINIMUM_TIME_TO_QUALIFY)}]

\* getQualifiedMembers after tryKey, at instant t.  Each id is a key of
\* members and is pushed once: the two arrays are kept as the sets of their
\* elements.
GetQualifiedMembers(A, t) ==
    LET time(r) == r.totalTime + IF r.joined # Null THEN t - r.joined ELSE 0
    IN  [qualified |-> {m \in DOMAIN A.members :
                          time(A.members[m]) >= MINIMUM_TIME_TO_QUALIFY},
         particpated |-> {m \in DOMAIN A.members :
                            ~(time(A.members[m]) >= MINIMUM_TIME_TO_QUALIFY)}]

\* The members with joined set.
Open(A) == {m \in DOMAIN A.members : A.members[m].joined # Null}

\* The lines a call of op that ended with res on document A appended to the
\* log (appendLogFile and appendSpecialLog).
LogLines(op, res, A) ==
    CASE res # "ok" -> 0
      [] op \in {"reportJoin", "reportLeave"} -> 1
      [] op = "endDeployment" -> Cardinality(Open(A)) + 1
      [] OTHER -> 0

\* The locals of runRecovery (key, inactiveIds) and the calls made (history);
\* loaded (history): the active flag of the document loaded at construction.
NewRecovery == [key |-> NoKey, inactiveIds |-> {}, calls |-> 0, loaded |-> FALSE]

\* The arguments of deployment_voice_monitor.execute, as far as it reads
\* them: the member, and whether the move is into the category (a join) or
\* out of it (a leave).
NoEvent == [member |-> "", join |-> FALSE]

\* Mutant: nobody is closed.
RunRecoveryOpensOnly(A, inactiveIds, P, t) ==
    [A EXCEPT !.members =
        [m \in (DOMAIN A.members) \cup P |->
            LET r == IF m \in DOMAIN A.members THEN A.members[m] ELSE NewRecord
            IN  IF m \in P /\ r.joined = Null THEN [r EXCEPT !.joined = t] ELSE r]]

\* Mutant: every store requires recovery.
AlwaysRequiresRecovery(A) == TRUE

\* The constructor: if (this.activityRecords.active) this.recoveryRequired = true
RequiresRecovery(A) == A.active

\* runRecovery, lines 328-356: every member found in the voice channels (P)
\* is taken out of inactiveIds and opened unless open; every id left in
\* inactiveIds that is open is closed.
RunRecoveryValue(A, inactiveIds, P, t) ==
    LET left == inactiveIds \ P
        found == [m \in (DOMAIN A.members) \cup P |->
                    LET r == IF m \in DOMAIN A.members THEN A.members[m] ELSE NewRecord
                    IN  IF m \in P /\ r.joined = Null THEN [r EXCEPT !.joined = t] ELSE r]
    IN  [A EXCEPT !.members = [m \in DOMAIN found |->
                                 IF m \in left /\ found[m].joined # Null
                                 THEN CloseRecord(found[m], t)
                                 ELSE found[m]]]

\* The lines runRecovery appends: the two notices, a JOIN for every member it
\* opens and a LEAVE for every member it closes.
RunRecoveryLines(A, inactiveIds, P) ==
    2 + Cardinality(P \ Open(A)) + Cardinality((inactiveIds \ P) \cap Open(A))

(***************************************************************************)
(* The username codec (iron-manager.ts).  A string is a sequence of        *)
(* one-character strings.                                                  *)
(***************************************************************************)
Digit == <<"0", "1", "2", "3", "4", "5", "6", "7", "8", "9">>
DigitChars == Range(Digit)
DigitValue(c) == (CHOOSE i \in 1..Len(Digit) : Digit[i] = c) - 1

RomanLetters == {"I", "V", "X", "L", "C", "D", "M"}

\* String.prototype.toUpperCase, on the letters the regular expression accepts.
ToUpperCase(c) ==
    CASE c = "i" -> "I" [] c = "v" -> "V" [] c = "x" -> "X" [] c = "l" -> "L"
      [] c = "c" -> "C" [] c = "d" -> "D" [] c = "m" -> "M" [] c = "e" -> "E"
      [] OTHER -> c

UpperCase(s) == [i \in 1..Len(s) |-> ToUpperCase(s[i])]

\* The class (?:[IVXLCDME]|[0-9]) under the flag i.
IsNumeralChar(c) == ToUpperCase(c) \in RomanLetters \cup {"E"} \cup DigitChars

\* '' + n for an integer n.
RECURSIVE NatToString(_)
NatToString(n) ==
    IF n < 10 THEN <<Digit[n + 1]>>
    ELSE NatToString(n \div 10) \o <<Digit[(n % 10) + 1]>>

NumberToString(n) == IF n < 0 THEN <<"-">> \o NatToString(0 - n) ELSE NatToString(n)

\* roman-numerals: the symbols toRoman emits, largest first.
RomanTable ==
    << [v |-> 1000, s |-> <<"M">>], [v |-> 900, s |-> <<"C", "M">>],
       [v |-> 500, s |-> <<"D">>],  [v |-> 400, s |-> <<"C", "D">>],
       [v |-> 100, s |-> <<"C">>],  [v |-> 90, s |-> <<"X", "C">>],
       [v |-> 50, s |-> <<"L">>],   [v |-> 40, s |-> <<"X", "L">>],
       [v |-> 10, s |-> <<"X">>],   [v |-> 9, s |-> <<"I", "X">>],
       [v |-> 5, s |-> <<"V">>],    [v |-> 4, s |-> <<"I", "V">>],
       [v |-> 1, s |-> <<"I">>] >>

RECURSIVE ToRomanFrom(_, _)
ToRomanFrom(n, k) ==
    IF n = 0 THEN <<>>
    ELSE IF RomanTable[k].v <= n
         THEN RomanTable[k].s \o ToRomanFrom(n - RomanTable[k].v, k)
         ELSE ToRomanFrom(n, k + 1)

\* RomanNumerals.toRoman(n) for 0 <= n <= 3999 (it throws outside).
ToRoman(n) == IF n = 0 THEN <<"n", "u", "l", "l", "a">> ELSE ToRomanFrom(n, 1)

LetterValue(c) ==
    CASE c = "I" -> 1 [] c = "V" -> 5 [] c = "X" -> 10 [] c = "L" -> 50
      [] c = "C" -> 100 [] c = "D" -> 500 [] c = "M" -> 1000

\* The value of a string of roman letters read with the subtractive rule.
RECURSIVE SubtractiveValue(_)
SubtractiveValue(s) ==
    IF Len(s) = 0 THEN 0
    ELSE IF Len(s) > 1 /\ LetterValue(s[1]) < LetterValue(s[2])
         THEN SubtractiveValue(Tail(s)) - LetterValue(s[1])
         ELSE SubtractiveValue(Tail(s)) + LetterValue(s[1])

Thrown == [ok |-> FALSE]
Returned(v) == [ok |-> TRUE, value |-> v]

\* RomanNumerals.toArabic(s): the string, upper-cased, must match
\* ^(M{0,3})(CM|DC{0,3}|CD|C{0,3})(XC|LX{0,3}|XL|X{0,3})(IX|VI{0,3}|IV|I{0,3})$,
\* that is, be the numeral toRoman writes for its value; '' is 0.
ToArabic(s) ==
    LET u == UpperCase(s) IN
    IF Len(u) = 0 THEN Returned(0)
    ELSE IF /\ Range(u) \subseteq RomanLetters
            /\ SubtractiveValue(u) \in 1..3999
            /\ ToRomanFrom(SubtractiveValue(u), 1) = u
         THEN Returned(SubtractiveValue(u))
         ELSE Thrown

HexChars == DigitChars \cup {"C", "D", "E"}
HexValue(c) == CASE c = "C" -> 12 [] c = "D" -> 13 [] c = "E" -> 14
                 [] OTHER -> DigitValue(c)

\* The digits of base b (the set D of characters) that s starts with, as a number.
RECURSIVE ParseDigits(_, _, _, _)
ParseDigits(s, D, b, acc) ==
    IF Len(s) = 0 \/ ToUpperCase(s[1]) \notin D THEN acc
    ELSE ParseDigits(Tail(s), D, b,
                     acc * b + (IF b = 16 THEN HexValue(ToUpperCase(s[1]))
                                ELSE DigitValue(s[1])))

\* parseInt(s) of a string of numeral characters: a 0x prefix selects base
\* 16; NaN is Thrown.
ParseInt(s) ==
    IF Len(s) >= 2 /\ s[1] = "0" /\ ToUpperCase(s[2]) = "X"
    THEN IF Len(s) >= 3 /\ ToUpperCase(s[3]) \in HexChars
         THEN Returned(ParseDigits(SubSeq(s, 3, Len(s)), HexChars, 16, 0))
         ELSE Thrown
    ELSE IF Len(s) >= 1 /\ s[1] \in DigitChars
         THEN Returned(ParseDigits(s, DigitChars, 10, 0))
         ELSE Thrown

Envoy == -10             \* the count an envoy's name decodes to
NameLimit == 32          \* longest nickname

\* The length of the longest prefix of s made of numeral characters.
RECURSIVE NumeralRun(_)
NumeralRun(s) ==
    IF Len(s) = 0 \/ ~IsNumeralChar(s[1]) THEN 0 ELSE 1 + NumeralRun(Tail(s))

NoMatch == [ok |-> FALSE]
Parsed(count, name) == [ok |-> TRUE, iron |-> count, name |-> name]

\* A display name holds no line terminator, so (.+) matches any non-empty rest.
\* username.match(/^\[ ?((?:[IVXLCDME]|[0-9])+) ?\] (.+)$/i): <<matches[1],
\* matches[2]>>, or <<>> when there is no match.
MatchUsername(u) ==
    IF Len(u) = 0 \/ u[1] # "[" THEN <<>>
    ELSE LET a == IF Len(u) >= 2 /\ u[2] = " " THEN 3 ELSE 2
             n == NumeralRun(SubSeq(u, a, Len(u)))
             z == a + n
             c == IF z <= Len(u) /\ u[z] = " " THEN z + 1 ELSE z
         IN  IF /\ n >= 1
                /\ c + 2 <= Len(u)
                /\ u[c] = "]"
                /\ u[c + 1] = " "
             THEN <<SubSeq(u, a, z - 1), SubSeq(u, c + 2, Len(u))>>
             ELSE <<>>

\* parseUsername: [IRON value, name] or null.
ParseUsername(username) ==
    LET matches == MatchUsername(username) IN
    IF matches = <<>> THEN NoMatch
    ELSE IF matches[1] # <<"E">> /\ "E" \in Range(matches[1]) THEN NoMatch
    ELSE IF matches[1] = <<"E">> THEN Parsed(Envoy, matches[2])
    ELSE IF ToArabic(matches[1]).ok THEN Parsed(ToArabic(matches[1]).value, matches[2])
    ELSE IF ParseInt(matches[1]).ok THEN Parsed(ParseInt(matches[1]).value, matches[2])
    ELSE NoMatch

\* The numerals createUsername chooses for a count.
Numerals(count) ==
    IF count > 0 /\ count <= 500 THEN ToRoman(count)
    ELSE IF count < 0 THEN <<"E">>
    ELSE NumberToString(count)

Padded(numerals, name) == <<"[", " ">> \o numerals \o <<" ", "]", " ">> \o name
\* Mutant: the compact form without the space before the name.
CompactNoSpace(numerals, name) == <<"[">> \o numerals \o <<"]">> \o name

\* `[${numerals}] ${name}`
Compact(numerals, name) == <<"[">> \o numerals \o <<"]", " ">> \o name

\* Mutant: nothing is cut.
NoSubstring(s, n) == s

\* s.substring(0, n)
Substring(s, n) == SubSeq(s, 1, IF Len(s) < n THEN Len(s) ELSE n)

\* createUsername: the combined name, Thrown for a count below the envoy's.
CreateUsername(count, name) ==
    IF count < Envoy THEN Thrown
    ELSE LET numerals == Numerals(count)
             length == 5 + Len(numerals) + Len(name)
             decimal == NumberToString(count)
         IN  IF length <= NameLimit THEN Returned(Padded(numerals, name))
             ELSE IF length - 2 <= NameLimit THEN Returned(Compact(numerals, name))
             ELSE IF 5 + Len(decimal) + Len(name) <= NameLimit
                  THEN Returned(Padded(decimal, name))
                  ELSE Returned(Substring(Compact(decimal, name), NameLimit))

\* createUsername cuts the name: the last branch, with more than 32 characters.
Truncates(count, name) ==
    /\ 5 + Len(Numerals(count)) + Len(name) - 2 > NameLimit
    /\ 5 + Len(NumberToString(count)) + Len(name) > NameLimit
    /\ Len(Compact(NumberToString(count), name)) > NameLimit

\* The arguments of a createUsername call and the values of the two calls.
NewCodec(count, name) ==
    [at |-> "args", iron |-> count, name |-> name, username |-> Thrown, parsed |-> NoMatch]

\* No call is made.
NoCodec == [NewCodec(0, <<>>) EXCEPT !.at = "none"]

\* Counts passed to createUsername: below the envoy's, the envoy's, another
\* negative one, zero, numerals of one to eleven letters, and beyond 500.
CodecCounts == {-11, -10, -5, 0, 1, 4, 9, 38, 388, 499, 500, 501}

\* Names passed to createUsername: the prefixes of two long names, the second
\* made of the characters the pattern of parseUsername looks for.
LongNames ==
    { <<"T", "r", "o", "o", "p", "e", "r", " ", "o", "f", " ", "t",
        "h", "e", " ", "I", "r", "o", "n", " ", "L", "e", "g", "i",
        "o", "n", " ", "A", "l", "p", "h", "a">>,
      <<"E", "]", " ", "[", " ", "I", "V", " ", "]", " ", "0", "x",
        "1", "F", " ", "e", " ", "[", "E", "]", " ", "V", " ", "]",
        " ", "x", " ", "[", "1", "2", "]", " ", "M">> }
CodecNames == {SubSeq(n, 1, k) : n \in LongNames, k \in 0..MaxNameLen}

(***************************************************************************)
(* Calls and their outcome                                                 *)
(***************************************************************************)
\* The call made by the last step and how it ended.
NoCall == [op |-> "none", res |-> "none"]
Call(op, res) == [op |-> op, res |-> res]

\* The call made by a step of a handler: with the lists it returned when it
\* is a getQualifiedMembers call that returned.
CallOf(op, res, A, t) ==
    IF op = "getQualifiedMembers" /\ res = "ok"
    THEN [op |-> op, res |-> res, value |-> GetQualifiedMembers(A, t)]
    ELSE Call(op, res)

\* Keys a caller can present: every key returned so far, '' and a foreign one.
Issued == {g.key : g \in grants}
KnownKeys == Issued \cup {NoKey} \cup ForeignKeys

\* No continuation of a resolved promise is pending (the microtask queue is
\* empty), so node can run a timer callback or a new event handler.
NoMicrotask == \A p \in Procs : pc[p] \notin {"granted", "locked", "unlocked"}

Up == alive = "up" /\ NoMicrotask

\* Mutant: unlock(key) returns and the lock stays as it was.
UnlockCallKeepsLock(L, key, k) == [res |-> "ok", lock |-> L]

\* unlock(key): tryKey, then the release.  k is the next UUID.
UnlockCall(L, key, k) ==
    IF TryKey(L, key)
    THEN [res |-> "ok", lock |-> LockUnlock(L, k)]
    ELSE [res |-> "LockViolation", lock |-> L]

\* The effect of unlock(key) on store s: the lock, the waiter it resolves,
\* the history.  P is where every other function stands after the step.
DoUnlock(s, key, P) ==
    LET L == lock[s]
        r == UnlockCall(L, key, uuid + 1)
        woken == IF Len(L.waiting) > Len(r.lock.waiting)
                 THEN {p \in Procs : \E i \in 1..Len(L.waiting) :
                         /\ L.waiting[i] = p
                         /\ \A j \in 1..Len(r.lock.waiting) : r.lock.waiting[j] # p}
                 ELSE {}
    IN  /\ lock' = [lock EXCEPT ![s] = r.lock]
        /\ released' = IF r.res = "ok" THEN released \cup {L.locked} ELSE released
        /\ IF woken # {}
           THEN /\ uuid' = uuid + 1
                /\ pc' = [p \in Procs |-> IF p \in woken THEN "granted" ELSE P[p]]
                \* resolver(this.locked)
                /\ inflight' = [p \in Procs |->
                                  IF p \in woken THEN r.lock.locked ELSE inflight[p]]
                /\ lastGranted' = [lastGranted EXCEPT
                                     ![s] = ticket[CHOOSE p \in woken : TRUE]]
           ELSE /\ pc' = P
                /\ UNCHANGED <<uuid, inflight, lastGranted>>
        /\ UNCHANGED <<grants, calls, ticket>>

(***************************************************************************)
(* Direct callers of a store (command and event handlers)                  *)
(***************************************************************************)
\* c calls lock() of the target store: Lock.lock up to its return.
CallLock(c) ==
    /\ Up /\ pc[c] = "idle"
    /\ LET s == target IN
       /\ lock' = [lock EXCEPT ![s] = LockLock(lock[s], c, uuid + 1)]
       /\ calls' = calls + 1
       /\ ticket' = [ticket EXCEPT ![c] = calls + 1]
       /\ IF lock[s].locked = NoKey
          THEN /\ uuid' = uuid + 1
               /\ pc' = [pc EXCEPT ![c] = "granted"]
               /\ inflight' = [inflight EXCEPT ![c] = lock'[s].locked]
               /\ lastGranted' = [lastGranted EXCEPT ![s] = calls + 1]
          ELSE /\ pc' = [pc EXCEPT ![c] = "waiting"]
               /\ UNCHANGED <<uuid, inflight, lastGranted>>
    /\ lastCall' = NoCall
    /\ UNCHANGED <<alive, grants, released, target, distVars, day, ironVars, devMode, codec, week, depVars>>

\* Mutant: validateData is called without the key lock() was resolved with.
IronLockResumeWithoutKey(L, I, F, d, key) ==
    IF TryKey(L, NoKey)
    THEN [res |-> "ok", iron |-> ValidateData(I, F, d)[1], file |-> ValidateData(I, F, d)[2]]
    ELSE [res |-> "LockViolation", iron |-> I, file |-> F]

\* IronLock.lock after super.lock(): validateData(key), return key.
IronLockResume(L, I, F, d, key) ==
    IF TryKey(L, key)
    THEN [res |-> "ok", iron |-> ValidateData(I, F, d)[1], file |-> ValidateData(I, F, d)[2]]
    ELSE [res |-> "LockViolation", iron |-> I, file |-> F]

\* The continuation of c's lock(): IronLock.lock validates, then returns the key.
Resume(c) ==
    /\ alive # "down" /\ pc[c] = "granted"
    /\ pc' = [pc EXCEPT ![c] = "idle"]
    /\ inflight' = [inflight EXCEPT ![c] = NoKey]
    /\ IF target = "iron"
       THEN LET r == IronLockResume(lock["iron"], iron, ironFile, day, inflight[c]) IN
            /\ iron' = r.iron
            /\ ironFile' = r.file
            /\ grants' = IF r.res = "ok"
                         THEN grants \cup {[t |-> ticket[c], key |-> inflight[c]]}
                         ELSE grants
            /\ lastCall' = Call("lock", r.res)
       ELSE /\ grants' = grants \cup {[t |-> ticket[c], key |-> inflight[c]]}
            /\ lastCall' = Call("lock", "ok")
            /\ UNCHANGED ironVars
    /\ UNCHANGED <<alive, uuid, lock, released, calls, ticket, lastGranted,
                   target, distVars, day, devMode, codec, week, depVars>>

\* unlock(key) with any key a caller can present.
Unlock(k) ==
    /\ Up
    /\ DoUnlock(target, k, pc)
    /\ lastCall' = Call("unlock", UnlockCall(lock[target], k, uuid + 1).res)
    /\ UNCHANGED <<alive, target, distVars, day, ironVars, devMode, codec, week, depVars>>

\* The setTimeout callback of a grant: await this.unlock(this.locked); throw.
Timeout(s, t) ==
    /\ Up /\ t \in lock[s].timers
    /\ IF TryKey(lock[s], lock[s].locked)
       THEN DoUnlock(s, lock[s].locked, pc)
       ELSE /\ lock' = [lock EXCEPT ![s].timers = @ \ {t}]
            /\ UNCHANGED <<uuid, pc, inflight, grants, released, calls, ticket,
                           lastGranted>>
    /\ alive' = "fatal"
    /\ lastCall' = NoCall
    /\ UNCHANGED <<target, distVars, day, ironVars, devMode, codec, week, depVars>>

\* main.ts: process.on('unhandledRejection', ...) -> process.exit(1)
ProcessExit ==
    /\ alive = "fatal" /\ NoMicrotask
    /\ alive' = "down"
    /\ lastCall' = NoCall
    /\ UNCHANGED <<lockVars, target, distVars, day, ironVars, devMode, codec, week, depVars>>

\* The calendar advances by a day.
Tick ==
    /\ alive = "up" /\ target = "iron" /\ day < MaxDay
    /\ day' = day + 1
    /\ lastCall' = NoCall
    /\ UNCHANGED <<alive, lockVars, target, distVars, ironVars, devMode, codec, week, depVars>>

(***************************************************************************)
(* IronLock: the public methods, each from its call to its return or throw *)
(***************************************************************************)
IronResult(res, I, F) == [res |-> res, iron |-> I, file |-> F]

ReadIron(L, I, F, key) ==
    IF ~TryKey(L, key) THEN IronResult("LockViolation", I, F)
    ELSE IronResult("ok", I, F)

\* Mutant: writeIron without writeJSON.
WriteIronUnsaved(L, I, F, key, S, t) ==
    IF ~TryKey(L, key) THEN IronResult("LockViolation", I, F)
    ELSE IronResult("ok", WriteIronValue(I, S, t), F)

WriteIron(L, I, F, key, S, t) ==
    IF ~TryKey(L, key) THEN IronResult("LockViolation", I, F)
    ELSE IronResult("ok", WriteIronValue(I, S, t), WriteIronValue(I, S, t))

IncrementDeploymentTracker(L, I, F, key, S) ==
    IF ~TryKey(L, key) THEN IronResult("LockViolation", I, F)
    ELSE IronResult("ok", IncrementValue(I, S), IncrementValue(I, S))

GetCurrentWeekTimestamp(L, I, F, d, key) ==
    IF ~TryKey(L, key) THEN IronResult("LockViolation", I, F)
    ELSE IronResult("ok", ValidateData(I, F, d)[1], ValidateData(I, F, d)[2])

\* Mutant: resetIron without the DEV_MODE test.
ResetIronAnyMode(L, I, F, d, dev, key) ==
    IF ~TryKey(L, key) THEN IronResult("LockViolation", I, F)
    ELSE IronResult("ok", ResetIronValue(d), ResetIronValue(d))

ResetIron(L, I, F, d, dev, key) ==
    IF ~dev THEN IronResult("NotDevMode", I, F)
    ELSE IF ~TryKey(L, key) THEN IronResult("LockViolation", I, F)
    ELSE IronResult("ok", ResetIronValue(d), ResetIronValue(d))

IronOps == {"readIron", "writeIron", "incrementDeploymentTracker",
            "getCurrentWeekTimestamp", "resetIron"}

\* The method op of the ledger called on the present state.
IronCall(op, key, S, t) ==
    LET L == lock["iron"] IN
    CASE op = "readIron" -> ReadIron(L, iron, ironFile, key)
      [] op = "writeIron" -> WriteIron(L, iron, ironFile, key, S, t)
      [] op = "incrementDeploymentTracker" ->
            IncrementDeploymentTracker(L, iron, ironFile, key, S)
      [] op = "getCurrentWeekTimestamp" ->
            GetCurrentWeekTimestamp(L, iron, ironFile, day, key)
      [] op = "resetIron" -> ResetIron(L, iron, ironFile, day, devMode, key)

\* The values of the arguments a method has; one value stands for an
\* argument it does not have.
ListArgs(op) ==
    IF op \in {"writeIron", "incrementDeploymentTracker"} THEN CallLists ELSE {<<>>}
TypeArgs(op) == IF op = "writeIron" THEN Types ELSE {"deployment"}

\* A handler calls a method of the ledger.
LedgerCall(op, key, S, t) ==
    /\ Up /\ target = "iron"
    /\ op = "incrementDeploymentTracker" =>
          \A m \in Range(S) : ReadIronValue(iron, m).numDeployments < MaxNum
    /\ LET r == IronCall(op, key, S, t) IN
       /\ iron' = r.iron
       /\ ironFile' = r.file
       /\ lastCall' = Call(op, r.res)
    /\ UNCHANGED <<alive, lockVars, target, distVars, day, devMode, codec, week, depVars>>

(***************************************************************************)
(* DeploymentActivityLock: the public methods                              *)
(***************************************************************************)
\* st: the startDeployment call left suspended at its awaits (<<>>: none).
DepResult(res, A, F, st) == [res |-> res, act |-> A, file |-> F, starting |-> st]

ReportJoin(L, A, F, st, key, m, t) ==
    IF ~TryKey(L, key) THEN DepResult("LockViolation", A, F, st)
    ELSE LET r == ReportJoinValue(A, m, t) IN
         IF r[2] THEN DepResult("InvalidTransition", r[1], F, st)
         ELSE DepResult("ok", r[1], r[1], st)

\* Mutant: reportLeave without its writeJSON.
ReportLeaveUnsaved(L, A, F, st, key, m, t) ==
    IF ~TryKey(L, key) THEN DepResult("LockViolation", A, F, st)
    ELSE LET r == ReportLeaveValue(A, m, t) IN
         IF r[2] THEN DepResult("InvalidTransition", r[1], F, st)
         ELSE DepResult("ok", r[1], F, st)

ReportLeave(L, A, F, st, key, m, t) ==
    IF ~TryKey(L, key) THEN DepResult("LockViolation", A, F, st)
    ELSE LET r == ReportLeaveValue(A, m, t) IN
         IF r[2] THEN DepResult("InvalidTransition", r[1], F, st)
         ELSE DepResult("ok", r[1], r[1], st)

\* isDeploymentActive, getOperationName, getQualifiedMembers, getMemberData:
\* tryKey, then a read.
DepRead(L, A, F, st, key) ==
    IF ~TryKey(L, key) THEN DepResult("LockViolation", A, F, st)
    ELSE DepResult("ok", A, F, st)

\* Mutant: resetJSON comes before the active check.
StartDeploymentResetsFirst(L, A, F, st, key, name) ==
    IF ~TryKey(L, key) THEN DepResult("LockViolation", A, F, st)
    ELSE IF A.active THEN DepResult("AlreadyActive", NewActivity, NewActivity, st)
    ELSE DepResult("ok", NewActivity, NewActivity, <<name>>)

\* startDeployment up to its first await: tryKey, the active check, resetJSON.
StartDeployment(L, A, F, st, key, name) ==
    IF ~TryKey(L, key) THEN DepResult("LockViolation", A, F, st)
    ELSE IF A.active THEN DepResult("AlreadyActive", A, F, st)
    ELSE DepResult("ok", NewActivity, NewActivity, <<name>>)

EndDeployment(L, A, F, st, key, t) ==
    IF ~TryKey(L, key) THEN DepResult("LockViolation", A, F, st)
    ELSE IF ~A.active THEN DepResult("NotActive", A, F, st)
    ELSE DepResult("ok", EndDeploymentValue(A, t), EndDeploymentValue(A, t), st)

DepReads == {"isDeploymentActive", "getOperationName", "getQualifiedMembers",
             "getMemberData"}
DepOps == {"reportJoin", "reportLeave", "startDeployment", "endDeployment"}
              \cup DepReads

\* The method op of the session store called on the present state.
DepCall(op, key, m, name) ==
    LET L == lock["dep"] IN
    CASE op = "reportJoin" -> ReportJoin(L, act, actFile, starting, key, m, now)
      [] op = "reportLeave" -> ReportLeave(L, act, actFile, starting, key, m, now)
      [] op = "startDeployment" ->
            StartDeployment(L, act, actFile, starting, key, name)
      [] op = "endDeployment" -> EndDeployment(L, act, actFile, starting, key, now)
      [] op \in DepReads -> DepRead(L, act, actFile, starting, key)

\* A handler calls a method of the session store.  One startDeployment call
\* is followed to its end before the next is made.
SessionCall(op, key, m, name) ==
    /\ Up /\ target = "dep"
    /\ op = "startDeployment" => starting = <<>>
    /\ LET r == DepCall(op, key, m, name) IN
       /\ act' = r.act
       /\ actFile' = r.file
       /\ starting' = r.starting
       /\ lastCall' = CallOf(op, r.res, act, now)
       /\ LogLines(op, r.res, act) > 0 => depLog < MaxLog
       /\ depLog' = depLog + LogLines(op, r.res, act)
    /\ UNCHANGED <<alive, lockVars, target, distVars, day, ironVars, devMode, codec, week, now,
                   recoveryRequired, present, rec, event>>

\* What getGuild and getGuildChannel give: the voice category, nothing (a
\* fetch failed), or a channel that is not a category.
Found == {"category", "nothing", "other"}

\* startDeployment after getGuild and getGuildChannel: found is what they
\* gave.  It returns (with or without the session started) or throws.
StartDeploymentResume(found) ==
    /\ alive = "up" /\ NoMicrotask /\ starting # <<>>
    /\ starting' = <<>>
    /\ IF found = "category"
       THEN /\ act' = StartDeploymentValue(act, starting[1], present, now)
            /\ actFile' = act'
            /\ depLog' = depLog + 1 + Cardinality(present)
       ELSE UNCHANGED <<act, actFile, depLog>>
    /\ lastCall' = Call("startDeployment.end",
                        CASE found = "category" -> "started"
                          [] found = "nothing" -> "notFound"
                          [] found = "other" -> "NotCategory")
    \* the throw ends the command that awaits the call (starting[2], if a
    \* handler of this model made it)
    /\ pc' = IF found = "other" /\ Len(starting) > 1
             THEN [pc EXCEPT ![starting[2]] = "aborted"]
             ELSE pc
    /\ UNCHANGED <<alive, uuid, lock, inflight, grants, released, calls, ticket,
                   lastGranted, target, distVars, day, ironVars, devMode, codec, week, now,
                   recoveryRequired, present, rec, event>>

\* Date.now() advances.
TickNow ==
    /\ alive = "up" /\ target = "dep" /\ now < MaxNow
    /\ now' = now + 1
    /\ lastCall' = NoCall
    /\ UNCHANGED <<alive, lockVars, target, distVars, day, ironVars, devMode, codec, week, act, actFile,
                   recoveryRequired, present, starting, depLog, rec, event>>

\* A member enters or leaves the voice channels of the category.
VoiceMove(m) ==
    /\ alive = "up" /\ target = "dep"
    /\ present' = IF m \in present THEN present \ {m} ELSE present \cup {m}
    /\ lastCall' = NoCall
    /\ UNCHANGED <<alive, lockVars, target, distVars, day, ironVars, devMode, codec, week, now, act, actFile,
                   recoveryRequired, starting, depLog, rec, event>>

(***************************************************************************)
(* runRecovery and the handlers of the session store                       *)
(***************************************************************************)
\* runRecovery up to its first await: the flag is tested and cleared, lock()
\* is called.
RunRecovery ==
    /\ Up /\ target = "dep" /\ rec.calls < MaxRecoveries
    /\ rec' = [rec EXCEPT !.calls = @ + 1]
    /\ IF ~recoveryRequired
       THEN /\ lastCall' = Call("runRecovery", "notRequired")
            /\ UNCHANGED <<lockVars, recoveryRequired>>
       ELSE /\ pc[Recovery] = "idle"
            /\ recoveryRequired' = FALSE
            /\ lock' = [lock EXCEPT !["dep"] = LockLock(lock["dep"], Recovery, uuid + 1)]
            /\ calls' = calls + 1
            /\ ticket' = [ticket EXCEPT ![Recovery] = calls + 1]
            /\ IF lock["dep"].locked = NoKey
               THEN /\ uuid' = uuid + 1
                    /\ pc' = [pc EXCEPT ![Recovery] = "granted"]
                    /\ inflight' = [inflight EXCEPT ![Recovery] = lock'["dep"].locked]
                    /\ lastGranted' = [lastGranted EXCEPT !["dep"] = calls + 1]
               ELSE /\ pc' = [pc EXCEPT ![Recovery] = "waiting"]
                    /\ UNCHANGED <<uuid, inflight, lastGranted>>
            /\ lastCall' = Call("runRecovery", "required")
            /\ UNCHANGED <<grants, released>>
    /\ UNCHANGED <<alive, target, distVars, day, ironVars, devMode, codec, week, now, act, actFile,
                   present, starting, depLog, event>>

\* lock() returned to runRecovery: inactiveIds is taken, getGuild is awaited.
RecoveryLocked ==
    /\ alive # "down" /\ pc[Recovery] = "granted"
    /\ pc' = [pc EXCEPT ![Recovery] = "await"]
    /\ inflight' = [inflight EXCEPT ![Recovery] = NoKey]
    /\ grants' = grants \cup {[t |-> ticket[Recovery], key |-> inflight[Recovery]]}
    /\ rec' = [rec EXCEPT !.key = inflight[Recovery], !.inactiveIds = DOMAIN act.members]
    /\ lastCall' = Call("lock", "ok")
    /\ UNCHANGED <<alive, uuid, lock, released, calls, ticket, lastGranted, target,
                   distVars, day, ironVars, devMode, codec, week, now, act, actFile,
                   recoveryRequired, present, starting, depLog, event>>

\* runRecovery after getGuild and getGuildChannel: it returns at once when a
\* fetch failed, throws when the channel is not a category, and otherwise
\* reconciles the records with the voice channels, writes the document and
\* unlocks.
RecoveryResume(found) ==
    /\ Up /\ pc[Recovery] = "await"
    /\ IF found = "category"
       THEN /\ act' = RunRecoveryValue(act, rec.inactiveIds, present, now)
            /\ actFile' = act'
            /\ depLog' = depLog + RunRecoveryLines(act, rec.inactiveIds, present)
            /\ DoUnlock("dep", rec.key,
                        [pc EXCEPT ![Recovery] =
                            IF TryKey(lock["dep"], rec.key) THEN "done" ELSE "aborted"])
            /\ lastCall' = Call("runRecovery.end", "ok")
       ELSE /\ pc' = [pc EXCEPT ![Recovery] = IF found = "nothing" THEN "done" ELSE "aborted"]
            /\ lastCall' = Call("runRecovery.end",
                                IF found = "nothing" THEN "notFound" ELSE "NotCategory")
            /\ UNCHANGED <<uuid, lock, inflight, grants, released, calls, ticket,
                           lastGranted, act, actFile, depLog>>
    /\ UNCHANGED <<alive, target, distVars, day, ironVars, devMode, codec, week, now,
                   recoveryRequired, present, starting, rec, event>>

\* The key lock() returned to handler c, and whether c still holds it: c has
\* not unlocked and is not suspended in startDeployment.
KeyOf(c) == (CHOOSE g \in grants : g.t = ticket[c]).key
Holds(c) ==
    /\ pc[c] = "idle" /\ starting = <<>>
    /\ \E g \in grants : g.t = ticket[c] /\ g.key \notin released

\* A command calls a method of the session store with the key it holds.  A
\* throw ends the command: the dispatcher catches and logs it, and the
\* unlock of the command is never reached.
HandlerCall(c, op, m, name) ==
    /\ Holds(c)
    /\ Up /\ target = "dep"
    /\ LET r == DepCall(op, KeyOf(c), m, name) IN
       /\ act' = r.act
       /\ actFile' = r.file
       /\ starting' = IF r.starting # starting THEN r.starting \o <<c>> ELSE starting
       /\ lastCall' = CallOf(op, r.res, act, now)
       /\ LogLines(op, r.res, act) > 0 => depLog < MaxLog
       /\ depLog' = depLog + LogLines(op, r.res, act)
       /\ pc' = [pc EXCEPT ![c] = IF r.res = "ok" THEN @ ELSE "aborted"]
    /\ UNCHANGED <<alive, uuid, lock, inflight, grants, released, calls, ticket,
                   lastGranted, target, distVars, day, ironVars, devMode, codec, week, now,
                   recoveryRequired, present, rec, event>>

\* The handler unlocks.
HandlerUnlock(c) ==
    /\ Holds(c)
    /\ Unlock(KeyOf(c))

\* A member moves into or out of the voice channels of the category and the
\* VoiceStateUpdate event reaches the process: deployment_voice_monitor runs
\* up to its await of lock().
VoiceStateUpdate(v, m) ==
    /\ Up /\ target = "dep" /\ pc[v] = "idle" /\ ticket[v] = 0
    /\ present' = IF m \in present THEN present \ {m} ELSE present \cup {m}
    /\ event' = [event EXCEPT ![v] = [member |-> m, join |-> m \notin present]]
    /\ lock' = [lock EXCEPT !["dep"] = LockLock(lock["dep"], v, uuid + 1)]
    /\ calls' = calls + 1
    /\ ticket' = [ticket EXCEPT ![v] = calls + 1]
    /\ IF lock["dep"].locked = NoKey
       THEN /\ uuid' = uuid + 1
            /\ pc' = [pc EXCEPT ![v] = "granted"]
            /\ inflight' = [inflight EXCEPT ![v] = lock'["dep"].locked]
            /\ lastGranted' = [lastGranted EXCEPT !["dep"] = calls + 1]
       ELSE /\ pc' = [pc EXCEPT ![v] = "waiting"]
            /\ UNCHANGED <<uuid, inflight, lastGranted>>
    /\ lastCall' = NoCall
    /\ UNCHANGED <<alive, grants, released, target, distVars, day, ironVars, devMode,
                   codec, week, now, act, actFile, recoveryRequired, starting, depLog, rec>>

\* lock() returned the key to the voice handler.
VoiceLocked(v) ==
    /\ alive # "down" /\ pc[v] = "granted"
    /\ pc' = [pc EXCEPT ![v] = "locked"]
    /\ inflight' = [inflight EXCEPT ![v] = NoKey]
    /\ grants' = grants \cup {[t |-> ticket[v], key |-> inflight[v]]}
    /\ lastCall' = Call("lock", "ok")
    /\ UNCHANGED <<alive, uuid, lock, released, calls, ticket, lastGranted, target,
                   distVars, day, ironVars, devMode, codec, week, depVars>>

\* The voice handler from the return of lock() to its end: isDeploymentActive,
\* then reportJoin or reportLeave if a session is active, then unlock.  A
\* throw of one of the calls rejects the promise of the handler, which
\* nothing handles (main.ts registers execute as the listener): the unlock is
\* not reached and the unhandledRejection handler of main.ts ends the process.
VoiceReport(v) ==
    /\ alive # "down" /\ pc[v] = "locked"
    /\ LET key == KeyOf(v)
           L == lock["dep"]
           op == IF event[v].join THEN "reportJoin" ELSE "reportLeave"
           r == IF ~TryKey(L, key) \/ ~act.active
                THEN DepRead(L, act, actFile, starting, key)
                ELSE DepCall(op, key, event[v].member, "")
           called == IF ~TryKey(L, key) \/ ~act.active THEN "isDeploymentActive" ELSE op
       IN  /\ act' = r.act
           /\ actFile' = r.file
           /\ depLog' = depLog + LogLines(called, r.res, act)
           /\ lastCall' = Call(called, r.res)
           /\ IF r.res = "ok"
              THEN /\ DoUnlock("dep", key, [pc EXCEPT ![v] = "done"])
                   /\ alive' = alive
              ELSE /\ pc' = [pc EXCEPT ![v] = "aborted"]
                   /\ alive' = "fatal"
                   /\ UNCHANGED <<uuid, lock, inflight, grants, released, calls,
                                  ticket, lastGranted>>
    /\ UNCHANGED <<target, distVars, day, ironVars, devMode, codec, week, now,
                   recoveryRequired, present, starting, rec, event>>

(***************************************************************************)
(* distributeIron (iron-manager.ts)                                        *)
(***************************************************************************)
\* Config.ranks of this model: at a count of 5 a member holding "recruit"
\* trades it for "veteran".
ConfigRanks ==
    [k \in {NumberToString(5)} |->
        [required |-> <<"recruit">>, add |-> <<"veteran">>, remove |-> <<"recruit">>]]

NewResults ==
    [issued |-> <<>>, notIssued |-> <<>>, duplicates |-> <<>>, invalidName |-> <<>>,
     namePermsError |-> <<>>, rankPermsError |-> <<>>, skippedEnvoys |-> <<>>,
     commendedForService |-> <<>>]

\* The locals of one distributeIron(members, type) call.  at: the call it is
\* suspended at, or how it ended; iron, name: parsed; f: the index in
\* changingRoles; newRoles: the argument of roles.set; error: what it threw;
\* failed (history): the members whose name or role change failed; renamed
\* (history): the members whose name it changed; writes (history): the
\* documents its writeJSON calls wrote, in order; unnamed (history): the
\* members it passed over at line 109, their name having no count.
NewBatch(members, type) ==
    [members |-> members, type |-> type, key |-> NoKey, i |-> 1, at |-> "none",
     completedIDs |-> <<>>, results |-> NewResults,
     attemptTo |-> [issue |-> <<>>, commend |-> <<>>, markParticipated |-> <<>>],
     j |-> 1, iron |-> 0, name |-> <<>>, username |-> <<>>, f |-> 1,
     newRoles |-> <<>>, error |-> "none", failed |-> {}, renamed |-> {}, writes |-> <<>>,
     unnamed |-> <<>>]

Includes(s, x) == x \in Range(s)

\* Mutant: no occurrence of a member is treated as already handled.
NeverCompleted(completedIDs, id) == FALSE

\* completedIDs.includes(member.id)
IsCompleted(completedIDs, id) == Includes(completedIDs, id)

\* Mutant: no member is treated as already holding the grant.
NeverHasIron(data, type) == FALSE

\* data[type]
HasIron(data, type) == data[type]

Rejected(B, error) == [B EXCEPT !.at = "rejected", !.error = error]

\* Mutant: nobody is taken for an envoy.
NobodyIsEnvoy(parsed) == FALSE

\* isEnvoy once parseUsername has decoded the name: parsed[0] < 0.
IsEnvoy(parsed) == parsed.iron < 0

\* Mutant: the threshold is tested as if the increment of this batch were
\* made already.
ClassifyDataAfterIncrement(B, member, data) ==
    LET B1 == IF HasIron(data, B.type)
              THEN [B EXCEPT !.results.notIssued = Append(@, member)]
              ELSE [B EXCEPT !.attemptTo.issue = Append(@, member)]
        B2 == IF B.type = "deployment"
              THEN [B1 EXCEPT !.attemptTo.markParticipated = Append(@, member),
                              !.attemptTo.commend =
                                  IF data.numDeployments >= 5 /\ ~data.commendation
                                  THEN Append(@, member) ELSE @]
              ELSE B1
    IN  [B2 EXCEPT !.completedIDs = Append(@, member)]

\* Lines 69-89: the member's record is classified.
ClassifyData(B, member, data) ==
    LET B1 == IF HasIron(data, B.type)
              THEN [B EXCEPT !.results.notIssued = Append(@, member)]
              ELSE [B EXCEPT !.attemptTo.issue = Append(@, member)]
        B2 == IF B.type = "deployment"
              THEN [B1 EXCEPT !.attemptTo.markParticipated = Append(@, member),
                              !.attemptTo.commend =
                                  IF data.numDeployments >= 4 /\ ~data.commendation
                                  THEN Append(@, member) ELSE @]
              ELSE B1
    IN  [B2 EXCEPT !.completedIDs = Append(@, member)]

\* The loop of lines 41-90 from member i on, up to its end (at = "write")
\* or to the await of line 55 (at = "logInvalid").  L: the ledger's lock,
\* I: the ledger, D: the display names.
RECURSIVE ClassifyFrom(_, _, _, _)
ClassifyFrom(B, L, I, D) ==
    IF B.i > Len(B.members) THEN [B EXCEPT !.at = "write"]
    ELSE LET member == B.members[B.i]
             parsed == ParseUsername(D[member])
             Continue(C) == ClassifyFrom([C EXCEPT !.i = @ + 1], L, I, D)
         IN  IF IsCompleted(B.completedIDs, member)
             THEN Continue([B EXCEPT !.results.duplicates = Append(@, member)])
             ELSE IF ~parsed.ok                    \* isEnvoy throws
             THEN [B EXCEPT !.at = "logInvalid"]
             ELSE IF IsEnvoy(parsed)
             THEN Continue([B EXCEPT !.results.skippedEnvoys = Append(@, member),
                                     !.completedIDs = Append(@, member)])
             ELSE IF ReadIron(L, I, I, B.key).res # "ok"
             THEN Rejected(B, "LockViolation")
             ELSE Continue(ClassifyData(B, member, ReadIronValue(I, member)))

\* Line 55 returned: lines 58-60.
AfterLogInvalid(B) ==
    LET member == B.members[B.i] IN
    [B EXCEPT !.results.invalidName = Append(@, member),
              !.completedIDs = Append(@, member),
              !.i = @ + 1]

\* Mutant: the grants are not written, the participation is.
WriteBatchIncrementsOnly(B, L, I, F) ==
    IncrementDeploymentTracker(L, I, F, B.key, B.attemptTo.markParticipated)

\* Lines 93-97: the ledger and the file after the writes of the batch.
WriteBatch(B, L, I, F) ==
    LET w1 == WriteIron(L, I, F, B.key, B.attemptTo.issue, B.type)
        w2 == IncrementDeploymentTracker(L, w1.iron, w1.file, B.key,
                                         B.attemptTo.markParticipated)
        w3 == IF Len(B.attemptTo.commend) > 0
              THEN WriteIron(L, w2.iron, w2.file, B.key, B.attemptTo.commend,
                             "commendation")
              ELSE w2
    IN  IF w1.res # "ok" THEN w1 ELSE IF w2.res # "ok" THEN w2 ELSE w3

\* attemptTo.issue.concat(attemptTo.commend)
NameList(B) == B.attemptTo.issue \o B.attemptTo.commend

\* Object.keys(member.roles.cache): the cache is a Collection (a Map), which
\* has no own enumerable property.
ObjectKeys(cache) == <<>>

\* roles.splice(roles.indexOf(role), 1) for every role of remove that roles includes.
RECURSIVE SpliceAll(_, _)
SpliceAll(rs, remove) ==
    IF Len(remove) = 0 THEN rs
    ELSE SpliceAll(IF Includes(rs, Head(remove))
                   THEN LET k == CHOOSE i \in 1..Len(rs) :
                                   /\ rs[i] = Head(remove)
                                   /\ \A h \in 1..(i - 1) : rs[h] # Head(remove)
                        IN  SubSeq(rs, 1, k - 1) \o SubSeq(rs, k + 1, Len(rs))
                   ELSE rs,
                   Tail(remove))

\* roles.push(role) for every role of add that roles does not include.
RECURSIVE PushAll(_, _)
PushAll(rs, add) ==
    IF Len(add) = 0 THEN rs
    ELSE PushAll(IF Includes(rs, Head(add)) THEN rs ELSE Append(rs, Head(add)),
                 Tail(add))

\* Lines 268-279: the argument of member.roles.set.
NewRoles(cache, rank) == PushAll(SpliceAll(ObjectKeys(cache), rank.remove), rank.add)

ChangingRoles(rank) == rank.add \o rank.remove

\* The numerals reported with a refused name change (line 122).
NewNumerals(count) ==
    IF count <= 500 /\ count > 0 THEN ToRoman(count) ELSE NumberToString(count)

RECURSIVE NameLoop(_, _, _, _)
RECURSIVE Rename(_, _, _, _)
RECURSIVE AfterPromotion(_, _, _, _, _)

\* The loop of lines 102-149 from member j on, up to its end (at = "return")
\* or to the next await.  D, R, M: display names, roles, manageable.
NameLoop(B, D, R, M) ==
    IF B.j > Len(NameList(B)) THEN [B EXCEPT !.at = "return"]
    ELSE LET member == NameList(B)[B.j]
             parsed == ParseUsername(D[member])
         IN  IF ~parsed.ok
             THEN [B EXCEPT !.at = "logNoName",                      \* line 106
                            !.unnamed = Append(@, member)]
             ELSE IF parsed.iron < 0
             THEN [B EXCEPT !.at = "logEnvoy", !.iron = parsed.iron,
                            !.name = parsed.name]                     \* line 113
             ELSE Rename([B EXCEPT !.iron = parsed.iron + 1, !.name = parsed.name],
                         D, R, M)

\* Lines 120-127, with parsed in B.iron and B.name.
Rename(B, D, R, M) ==
    LET member == NameList(B)[B.j]
        username == CreateUsername(B.iron, B.name)
    IN  IF ~username.ok THEN Rejected(B, "createUsername")
        ELSE IF ~M[member]
        THEN NameLoop([B EXCEPT !.results.namePermsError =
                                    Append(@, <<member, NewNumerals(B.iron)>>),
                                !.failed = @ \cup {member},
                                !.j = @ + 1],
                      D, R, M)
        ELSE [B EXCEPT !.at = "setNickname", !.username = username.value]

\* Mutant: a member whose promotion failed is reported as issued too.
AfterPromotionReportsBoth(B, error, D, R, M) ==
    LET member == NameList(B)[B.j]
        C == IF error
             THEN [B EXCEPT !.results.rankPermsError = Append(@, member),
                            !.results.issued = Append(@, member)]
             ELSE IF Includes(B.attemptTo.commend, member)
             THEN [B EXCEPT !.results.commendedForService = Append(@, member)]
             ELSE [B EXCEPT !.results.issued = Append(@, member)]
    IN  NameLoop([C EXCEPT !.j = @ + 1], D, R, M)

\* Lines 136-148 once tryPromotion has returned error.
AfterPromotion(B, error, D, R, M) ==
    LET member == NameList(B)[B.j]
        C == IF error
             THEN [B EXCEPT !.results.rankPermsError = Append(@, member)]
             ELSE IF Includes(B.attemptTo.commend, member)
             THEN [B EXCEPT !.results.commendedForService = Append(@, member)]
             ELSE [B EXCEPT !.results.issued = Append(@, member)]
    IN  NameLoop([C EXCEPT !.j = @ + 1], D, R, M)

\* tryPromotion from line 257 on, at role f of changingRoles: the next
\* fetch, or the call of roles.set.
UpdateRoles(B, R) ==
    LET member == NameList(B)[B.j]
        rank == ConfigRanks[NumberToString(B.iron)]
    IN  IF B.f <= Len(ChangingRoles(rank))
        THEN [B EXCEPT !.at = "fetch"]
        ELSE [B EXCEPT !.at = "set", !.newRoles = NewRoles(R[member], rank)]

\* tryPromotion(member, '' + parsed[0]) up to its first await, and what
\* follows its return when it returns without one.
TryPromotion(B, D, R, M) ==
    LET member == NameList(B)[B.j]
        ironCount == NumberToString(B.iron)
    IN  IF ironCount \notin DOMAIN ConfigRanks THEN AfterPromotion(B, FALSE, D, R, M)
        ELSE IF ~(Range(ConfigRanks[ironCount].required) \subseteq R[member])
        THEN AfterPromotion(B, FALSE, D, R, M)
        ELSE IF ~M[member]
        THEN AfterPromotion([B EXCEPT !.failed = @ \cup {member}], TRUE, D, R, M)
        ELSE UpdateRoles([B EXCEPT !.f = 1], R)

\* Where the function stands for a value of at.
PcOf(at) ==
    CASE at = "return" -> "done"
      [] at = "rejected" -> "aborted"
      [] OTHER -> "await"

Settle(b, C) ==
    /\ batch' = [batch EXCEPT ![b] = C]
    /\ pc' = [pc EXCEPT ![b] = PcOf(C.at)]

\* lock() of the ledger returned to distributeIron: validateData, line 23.
DistLocked(b) ==
    /\ alive # "down" /\ pc[b] = "granted"
    /\ LET r == IronLockResume(lock["iron"], iron, ironFile, day, inflight[b]) IN
       /\ iron' = r.iron
       /\ ironFile' = r.file
       /\ IF r.res = "ok"
          THEN /\ grants' = grants \cup {[t |-> ticket[b], key |-> inflight[b]]}
               /\ batch' = [batch EXCEPT ![b].key = inflight[b]]
               /\ pc' = [pc EXCEPT ![b] = "locked"]
          ELSE /\ batch' = [batch EXCEPT ![b] = Rejected(@, "LockViolation")]
               /\ pc' = [pc EXCEPT ![b] = "aborted"]
               /\ UNCHANGED grants
    /\ inflight' = [inflight EXCEPT ![b] = NoKey]
    /\ lastCall' = NoCall
    /\ UNCHANGED <<alive, uuid, lock, released, calls, ticket, lastGranted, target,
                   day, devMode, codec, week, depVars, displayName, roles, manageable, origName,
                   issuedLog>>

\* The grants a batch writes: its issue list under its type, its commend
\* list as commendations.
Grants(b, B) ==
    {[b |-> b, m |-> m, cat |-> B.type] : m \in Range(B.attemptTo.issue)}
        \cup {[b |-> b, m |-> m, cat |-> "commendation"] : m \in Range(B.attemptTo.commend)}

\* The documents the writeJSON calls of lines 93-97 write, in order.
WritesOf(B, L, I, F) ==
    LET w1 == WriteIron(L, I, F, B.key, B.attemptTo.issue, B.type)
        w2 == IncrementDeploymentTracker(L, w1.iron, w1.file, B.key,
                                         B.attemptTo.markParticipated)
    IN  <<w1.file, w2.file>>
            \o IF Len(B.attemptTo.commend) > 0
               THEN <<WriteIron(L, w2.iron, w2.file, B.key, B.attemptTo.commend,
                                "commendation").file>>
               ELSE <<>>

\* The classification loop runs on from B; at its end the batch is written
\* and the lock released (lines 93-98).
Classify(b, B) ==
    LET C == ClassifyFrom(B, lock["iron"], iron, displayName)
        w == WriteBatch(C, lock["iron"], iron, ironFile)
        u == UnlockCall(lock["iron"], C.key, uuid + 1)
    IN  IF C.at # "write"
        THEN /\ Settle(b, C)
             /\ UNCHANGED <<uuid, lock, inflight, grants, released, calls, ticket,
                            lastGranted, ironVars, issuedLog>>
        ELSE IF w.res # "ok" \/ u.res # "ok"
        THEN /\ Settle(b, Rejected(C, "LockViolation"))
             /\ UNCHANGED <<uuid, lock, inflight, grants, released, calls, ticket,
                            lastGranted, ironVars, issuedLog>>
        ELSE /\ iron' = w.iron
             /\ ironFile' = w.file
             /\ issuedLog' = issuedLog \cup Grants(b, C)
             /\ batch' = [batch EXCEPT ![b] =
                            [C EXCEPT !.at = "unlock", !.writes = WritesOf(C, lock["iron"], iron, ironFile)]]
             /\ DoUnlock("iron", C.key, [pc EXCEPT ![b] = "unlocked"])

\* distributeIron after line 23: the loop of lines 41-90.
DistClassify(b) ==
    /\ alive # "down" /\ pc[b] = "locked"
    /\ Classify(b, batch[b])
    /\ lastCall' = NoCall
    /\ UNCHANGED <<alive, target, day, devMode, codec, week, depVars, displayName, roles,
                   manageable, origName>>

\* Logger.logToChannel returned or threw, at line 55, 106 or 113.
LogDone(b, out) ==
    /\ Up /\ pc[b] = "await"
    /\ batch[b].at \in {"logInvalid", "logNoName", "logEnvoy"}
    /\ IF out = "throws"
       THEN /\ Settle(b, Rejected(batch[b], "logToChannel"))
            /\ UNCHANGED <<uuid, lock, inflight, grants, released, calls, ticket,
                           lastGranted, ironVars, issuedLog>>
       ELSE IF batch[b].at = "logInvalid"
       THEN Classify(b, AfterLogInvalid(batch[b]))
       ELSE /\ Settle(b, IF batch[b].at = "logNoName"
                         THEN NameLoop([batch[b] EXCEPT !.j = @ + 1],
                                       displayName, roles, manageable)
                         ELSE Rename(batch[b], displayName, roles, manageable))
            /\ UNCHANGED <<uuid, lock, inflight, grants, released, calls, ticket,
                           lastGranted, ironVars, issuedLog>>
    /\ lastCall' = NoCall
    /\ UNCHANGED <<alive, target, day, devMode, codec, week, depVars, displayName, roles,
                   manageable, origName>>

\* unlock returned to distributeIron: the loop of lines 102-149 starts.
DistNames(b) ==
    /\ alive # "down" /\ pc[b] = "unlocked"
    /\ Settle(b, NameLoop(batch[b], displayName, roles, manageable))
    /\ lastCall' = NoCall
    /\ UNCHANGED <<alive, uuid, lock, inflight, grants, released, calls, ticket,
                   lastGranted, target, day, ironVars, devMode, codec, week, depVars, displayName,
                   roles, manageable, origName, issuedLog>>

\* member.setNickname(username) resolved, or rejected and was caught (line
\* 127); tryPromotion is called.
NickDone(b, out) ==
    /\ Up /\ pc[b] = "await" /\ batch[b].at = "setNickname"
    /\ LET member == NameList(batch[b])[batch[b].j]
           B == IF out = "ok" THEN [batch[b] EXCEPT !.renamed = @ \cup {member}]
                ELSE [batch[b] EXCEPT !.failed = @ \cup {member}]
       IN  /\ displayName' = IF out = "ok"
                             THEN [displayName EXCEPT ![member] = batch[b].username]
                             ELSE displayName
           /\ Settle(b, TryPromotion(B, displayName', roles, manageable))
    /\ lastCall' = NoCall
    /\ UNCHANGED <<alive, uuid, lock, inflight, grants, released, calls, ticket,
                   lastGranted, target, day, ironVars, devMode, codec, week, depVars, roles,
                   manageable, origName, issuedLog>>

\* roleManager.fetch(r) gave an editable role ("ok"), gave none or one that
\* is not editable ("refused"), or rejected.
FetchDone(b, out) ==
    /\ Up /\ pc[b] = "await" /\ batch[b].at = "fetch"
    /\ LET member == NameList(batch[b])[batch[b].j]
           F == [batch[b] EXCEPT !.failed = @ \cup {member}]
       IN  Settle(b, CASE out = "ok" -> UpdateRoles([batch[b] EXCEPT !.f = @ + 1], roles)
                       [] out = "refused" ->
                             AfterPromotion(F, TRUE, displayName, roles, manageable)
                       [] out = "rejected" -> Rejected(F, "fetch"))
    /\ lastCall' = NoCall
    /\ UNCHANGED <<alive, uuid, lock, inflight, grants, released, calls, ticket,
                   lastGranted, target, day, ironVars, devMode, codec, week, depVars, displayName,
                   roles, manageable, origName, issuedLog>>

\* member.roles.set(roles) resolved or rejected; tryPromotion returns.
SetDone(b, out) ==
    /\ Up /\ pc[b] = "await" /\ batch[b].at = "set"
    /\ LET member == NameList(batch[b])[batch[b].j] IN
       IF out = "ok"
       THEN /\ roles' = [roles EXCEPT ![member] = Range(batch[b].newRoles)]
            /\ Settle(b, AfterPromotion(batch[b], FALSE, displayName, roles', manageable))
       ELSE /\ roles' = roles
            /\ Settle(b, Rejected([batch[b] EXCEPT !.failed = @ \cup {member}], "set"))
    /\ lastCall' = NoCall
    /\ UNCHANGED <<alive, uuid, lock, inflight, grants, released, calls, ticket,
                   lastGranted, target, day, ironVars, devMode, codec, week, depVars, displayName,
                   manageable, origName, issuedLog>>

\* A setNickname call for m is under way.
NickInFlight(m) ==
    \E b \in Batches :
        /\ pc[b] = "await" /\ batch[b].at = "setNickname"
        /\ NameList(batch[b])[batch[b].j] = m

\* A batch has granted m and waits on a call made for a member before m in
\* its name loop.
AwaitsRename(m) ==
    \E b \in Batches :
        /\ pc[b] = "await"
        /\ batch[b].at # "logInvalid"
        /\ \E k \in (batch[b].j + 1)..Len(NameList(batch[b])) : NameList(batch[b])[k] = m

\* An officer makes member m an envoy and the member update reaches the
\* cache: the count in the name becomes E.  Followed between the grant of m
\* and the update of its name (before, it is a name the process starts
\* with); taken while no setNickname call for m is under way: which of two
\* concurrent edits the guild keeps is not decided by this program.
MakeEnvoy(m) ==
    /\ Up
    /\ AwaitsRename(m)
    /\ ParseUsername(displayName[m]).ok
    /\ ParseUsername(displayName[m]).iron >= 0
    /\ ~NickInFlight(m)
    /\ displayName' = [displayName EXCEPT
                          ![m] = Padded(<<"E">>, ParseUsername(displayName[m]).name)]
    /\ lastCall' = NoCall
    /\ UNCHANGED <<alive, lockVars, target, day, ironVars, devMode, codec, week, depVars, batch,
                   roles, manageable, origName, issuedLog>>

\* The nickname of member m is cleared and the member update reaches the
\* cache: displayName falls back to a name without a count.  Followed, as
\* MakeEnvoy, between the grant of m and the update of its name.
ClearNickname(m) ==
    /\ Up
    /\ AwaitsRename(m)
    /\ ParseUsername(displayName[m]).ok
    /\ ParseUsername(displayName[m]).iron >= 0
    /\ ~NickInFlight(m)
    /\ displayName' = [displayName EXCEPT ![m] = ParseUsername(displayName[m]).name]
    /\ lastCall' = NoCall
    /\ UNCHANGED <<alive, lockVars, target, day, ironVars, devMode, codec, week, depVars, batch,
                   roles, manageable, origName, issuedLog>>

(***************************************************************************)
(* The ledger documents the constructor can find.                          *)
(***************************************************************************)
\* No file: a fresh document.  A file: whatever an earlier run left, here a
\* document of the week before with m1's deployment recorded.
InitIron ==
    { [weekTimestamp |-> CalcCurWeekTimestamp(StartDay), members |-> << >>],
      [weekTimestamp |-> CalcCurWeekTimestamp(StartDay) - 7,
       members |-> [m \in {"m1"} |->
                      [numDeployments |-> 1, deployment |-> TRUE, commendation |-> FALSE]]] }

InitLock ==
    /\ alive = "up"
    /\ uuid = 0
    /\ lock = [s \in Stores |-> NewLock]
    /\ pc = [p \in Procs |-> "idle"]
    /\ inflight = [p \in Procs |-> NoKey]
    /\ grants = {}
    /\ released = {}
    /\ calls = 0
    /\ ticket = [p \in Procs |-> 0]
    /\ lastGranted = [s \in Stores |-> 0]

\* The session store constructed with no file on disk.
InitDep ==
    /\ now = 1
    /\ act = NewActivity
    /\ actFile = act
    /\ recoveryRequired = RequiresRecovery(act)
    /\ present = {}
    /\ starting = <<>>
    /\ depLog = 0
    /\ rec = NewRecovery
    /\ event = [v \in VoiceHandlers |-> NoEvent]

\* The members as the guild has them when the process starts.
Trooper == <<"T", "r", "o", "o", "p", "e", "r">>
TrooperIV == <<"[", " ", "I", "V", " ", "]", " ">> \o Trooper
TrooperV == <<"[", " ", "V", " ", "]", " ">> \o Trooper
SecondNames ==
    { <<"[", " ", "E", " ", "]", " ", "A", "m", "b">>,     \* an envoy
      <<"R", "e", "c", "r", "u", "i", "t">>,               \* no count
      <<"[", "4", "]", " ", "C", "a", "d", "e", "t">> }    \* compact, decimal

InitRoles == [m \in Members |-> IF m = "m1" THEN {"recruit", "medic"} ELSE {"medic"}]

\* No distributeIron call is made.
InitNoBatch ==
    /\ batch = [b \in Batches |-> NewBatch(<<>>, "deployment")]
    /\ displayName = [m \in Members |-> TrooperIV]
    /\ roles = InitRoles
    /\ manageable = [m \in Members |-> TRUE]
    /\ origName = displayName
    /\ issuedLog = {}

Init ==
    /\ InitLock
    /\ InitNoBatch
    /\ target \in Stores
    /\ day = StartDay
    /\ iron \in IF target = "iron" THEN InitIron ELSE {ResetIronValue(StartDay)}
    /\ ironFile = iron
    /\ devMode \in IF target = "iron" THEN BOOLEAN ELSE {FALSE}
    /\ InitDep
    /\ lastCall = NoCall
    /\ codec = NoCodec
    /\ week = NoWeek

Next ==
    \/ \E c \in StoreCallers : calls < MaxStoreCalls /\ CallLock(c)
    \/ \E c \in StoreCallers : Resume(c)
    \/ \E k \in KnownKeys : Unlock(k)
    \/ \E s \in Stores : \E t \in lock[s].timers : Timeout(s, t)
    \/ ProcessExit
    \/ Tick
    \/ \E op \in IronOps, k \in KnownKeys :
          \E S \in ListArgs(op), t \in TypeArgs(op) : LedgerCall(op, k, S, t)
    \/ \E op \in DepOps, k \in KnownKeys, m \in CallMembers, name \in OperationNames :
          SessionCall(op, k, m, name)
    \/ \E found \in Found : StartDeploymentResume(found)
    \/ TickNow
    \/ \E m \in CallMembers : VoiceMove(m)

Spec == Init /\ [][Next]_vars

(***************************************************************************)
(* The Lock alone: three callers of one Lock instance.                     *)
(***************************************************************************)
InitLockOnly ==
    /\ InitLock
    /\ InitNoBatch
    /\ target = "dep"
    /\ day = StartDay
    /\ iron = ResetIronValue(StartDay)
    /\ ironFile = iron
    /\ devMode = FALSE
    /\ InitDep
    /\ lastCall = NoCall
    /\ codec = NoCodec
    /\ week = NoWeek

NextLock ==
    \/ \E c \in Callers : calls < MaxCalls /\ CallLock(c)
    \/ \E c \in Callers : Resume(c)
    \/ \E k \in KnownKeys : Unlock(k)
    \/ \E t \in lock["dep"].timers : Timeout("dep", t)
    \/ ProcessExit

SpecLock == InitLockOnly /\ [][NextLock]_vars

(***************************************************************************)
(* The Lock and the IronLock under handlers that lock, work and unlock:    *)
(* a handler calls lock() only when it holds no key (commands/*.ts,        *)
(* events/deployments.ts), and unlocks with the key lock() returned.  The  *)
(* continuation of a resolved lock() always runs (WF on Resume), and a     *)
(* handler that holds a key reaches its unlock (WF on HandlerUnlock).      *)
(***************************************************************************)
LockRequest(c) == ~Holds(c) /\ calls < MaxCalls /\ CallLock(c)

NextLockFair ==
    \/ \E c \in Callers : LockRequest(c)
    \/ \E c \in Callers : Resume(c)
    \/ \E c \in Callers : HandlerUnlock(c)
    \/ \E s \in Stores : \E t \in lock[s].timers : Timeout(s, t)
    \/ ProcessExit
    \/ Tick

LockFairness ==
    \A c \in Callers : WF_vars(Resume(c)) /\ WF_vars(HandlerUnlock(c))

SpecLockFair == Init /\ [][NextLockFair]_vars /\ LockFairness

(***************************************************************************)
(* distributeIron: two calls (commands or carnage reports) in one week.    *)
(***************************************************************************)
\* A ledger of the current week as earlier batches can have left it: empty,
\* or with four deployments of m1 counted.
InitIronDist ==
    { ResetIronValue(StartDay),
      [weekTimestamp |-> CalcCurWeekTimestamp(StartDay),
       members |-> [m \in {"m1"} |->
                      [numDeployments |-> 4, deployment |-> TRUE, commendation |-> FALSE]]] }

FirstInputs == {<<"m1">>, <<"m1", "m1">>, <<"m2", "m1">>}
SecondInputs == {<<"m1">>}

InitDist ==
    /\ InitLock
    /\ target = "iron"
    /\ day = StartDay
    /\ iron \in InitIronDist
    /\ ironFile = iron
    /\ devMode = FALSE
    /\ InitDep
    /\ lastCall = NoCall
    /\ codec = NoCodec
    /\ week = NoWeek
    /\ batch \in {[b \in Batches |-> NewBatch(IF b = "b1" THEN i1 ELSE i2,
                                                IF b = "b1" THEN t1 ELSE t2)] :
                     i1 \in FirstInputs, i2 \in SecondInputs, t1 \in Types, t2 \in Types}
    /\ displayName \in {[m \in Members |-> IF m = "m1" THEN TrooperIV ELSE n] :
                           n \in SecondNames}
    /\ roles = InitRoles
    /\ manageable \in {[m \in Members |-> m \in S] : S \in {Members, Members \ {"m1"}}}
    /\ origName = displayName
    /\ issuedLog = {}

NextDist ==
    \/ \E b \in Batches : CallLock(b)
    \/ \E b \in Batches : DistLocked(b)
    \/ \E b \in Batches : DistClassify(b)
    \/ \E b \in Batches, out \in {"ok", "throws"} : LogDone(b, out)
    \/ \E b \in Batches : DistNames(b)
    \/ \E b \in Batches, out \in {"ok", "rejected"} : NickDone(b, out)
    \/ \E b \in Batches, out \in {"ok", "refused", "rejected"} : FetchDone(b, out)
    \/ \E b \in Batches, out \in {"ok", "rejected"} : SetDone(b, out)
    \/ \E t \in lock["iron"].timers : Timeout("iron", t)
    \/ ProcessExit
    \/ \E m \in Members : MakeEnvoy(m)
    \/ \E m \in Members : ClearNickname(m)

SpecDist == InitDist /\ [][NextDist]_vars

(***************************************************************************)
(* The session store: a process constructed on the document an earlier run *)
(* left, runRecovery, and one handler at a time holding the lock.          *)
(***************************************************************************)
OpenRecord(t, total) == [joined |-> t, totalTime |-> total]
ClosedRecord(total) == [joined |-> Null, totalTime |-> total]

\* storage/deployment-voice.json at construction: no file, a session that
\* was ended, and sessions that were active when the process stopped.
LoadedDocuments ==
    { NewActivity,
      [active |-> FALSE, operationName |-> "op", started |-> 1,
       members |-> [m \in {"m1"} |-> ClosedRecord(1)]],
      [active |-> TRUE, operationName |-> "op", started |-> 1,
       members |-> [m \in {"m1", "m2"} |-> OpenRecord(1, 0)]],
      [active |-> TRUE, operationName |-> "op", started |-> 1,
       members |-> [m \in {"m1", "m2"} |->
                      IF m = "m1" THEN OpenRecord(1, 1) ELSE ClosedRecord(1)]],
      [active |-> TRUE, operationName |-> "op", started |-> 1,
       members |-> << >>] }

SessionCallers == {"c1"}

\* The methods the handlers of this run call.
HandlerOps == {"isDeploymentActive", "startDeployment", "endDeployment",
               "getQualifiedMembers", "getMemberData"}

InitSession ==
    /\ InitLock
    /\ InitNoBatch
    /\ target = "dep"
    /\ day = StartDay
    /\ iron = ResetIronValue(StartDay)
    /\ ironFile = iron
    /\ devMode = FALSE
    /\ now = 1
    /\ act \in LoadedDocuments
    /\ actFile = act
    /\ recoveryRequired = RequiresRecovery(act)
    /\ present \in SUBSET Members
    /\ starting = <<>>
    /\ depLog = 0
    /\ rec = [NewRecovery EXCEPT !.loaded = act.active]
    /\ event = [v \in VoiceHandlers |-> NoEvent]
    /\ lastCall = NoCall
    /\ codec = NoCodec
    /\ week = NoWeek

NextSession ==
    \/ \E c \in SessionCallers : ticket[c] < MaxHandlerCalls /\ CallLock(c)
    \/ \E c \in SessionCallers : Resume(c)
    \/ \E c \in SessionCallers, op \in HandlerOps, m \in Members, name \in OperationNames :
          HandlerCall(c, op, m, name)
    \/ \E c \in SessionCallers : HandlerUnlock(c)
    \/ \E v \in VoiceHandlers, m \in Members : VoiceStateUpdate(v, m)
    \/ \E v \in VoiceHandlers : VoiceLocked(v)
    \/ \E v \in VoiceHandlers : VoiceReport(v)
    \/ \E found \in Found : StartDeploymentResume(found)
    \/ RunRecovery
    \/ RecoveryLocked
    \/ \E found \in Found : RecoveryResume(found)
    \/ TickNow
    \/ \E t \in lock["dep"].timers : Timeout("dep", t)
    \/ ProcessExit

SpecSession == InitSession /\ [][NextSession]_vars

(***************************************************************************)
(* The two stores: the ledger under its direct callers, the session store  *)
(* under its handlers.                                                     *)
(***************************************************************************)
InitStores ==
    \/ Init /\ target = "iron"
    \/ InitSession

NextStores ==
    \/ \E c \in StoreCallers : target = "iron" /\ calls < MaxStoreCalls /\ CallLock(c)
    \/ \E c \in SessionCallers :
          target = "dep" /\ ticket[c] < MaxHandlerCalls /\ CallLock(c)
    \/ \E c \in StoreCallers : Resume(c)
    \/ \E k \in KnownKeys : target = "iron" /\ Unlock(k)
    \/ \E op \in IronOps, k \in KnownKeys :
          \E S \in ListArgs(op), t \in TypeArgs(op) : LedgerCall(op, k, S, t)
    \/ Tick
    \/ \E c \in SessionCallers, op \in HandlerOps, m \in Members, name \in OperationNames :
          HandlerCall(c, op, m, name)
    \/ \E c \in SessionCallers : HandlerUnlock(c)
    \/ \E v \in VoiceHandlers, m \in Members : VoiceStateUpdate(v, m)
    \/ \E v \in VoiceHandlers : VoiceLocked(v)
    \/ \E v \in VoiceHandlers : VoiceReport(v)
    \/ \E found \in Found : StartDeploymentResume(found)
    \/ RunRecovery
    \/ RecoveryLocked
    \/ \E found \in Found : RecoveryResume(found)
    \/ TickNow
    \/ \E s \in Stores : \E t \in lock[s].timers : Timeout(s, t)
    \/ ProcessExit

SpecStores == InitStores /\ [][NextStores]_vars

(***************************************************************************)
(* calcCurWeekTimestamp alone, called at the instants of three weeks.      *)
(***************************************************************************)
InitWeek ==
    /\ InitLock
    /\ InitNoBatch
    /\ target = "iron"
    /\ day = StartDay
    /\ iron = ResetIronValue(StartDay)
    /\ ironFile = iron
    /\ devMode = FALSE
    /\ InitDep
    /\ lastCall = NoCall
    /\ codec = NoCodec
    /\ week \in {NewWeek(t) : t \in 0..(ToMillis(7 * MaxWeeks) - 1)}

\* calcCurWeekTimestamp() returns.
WeekCall ==
    /\ week.at = "clock"
    /\ week' = [week EXCEPT !.at = "returned",
                            !.result = ToMillis(CalcCurWeekTimestamp(StartOfDay(week.instant)))]
    /\ UNCHANGED <<alive, lockVars, target, day, ironVars, devMode, depVars, lastCall,
                   distVars, codec>>

NextWeek == WeekCall

SpecWeek == InitWeek /\ [][NextWeek]_vars

(***************************************************************************)
(* The username codec alone: createUsername, then parseUsername on its     *)
(* result.                                                                 *)
(***************************************************************************)
InitCodec ==
    /\ InitLock
    /\ InitNoBatch
    /\ target = "iron"
    /\ day = StartDay
    /\ iron = ResetIronValue(StartDay)
    /\ ironFile = iron
    /\ devMode = FALSE
    /\ InitDep
    /\ lastCall = NoCall
    /\ codec \in {NewCodec(c, n) : c \in CodecCounts, n \in CodecNames}
    /\ week = NoWeek

\* createUsername(iron, name) returns or throws.
CreateCall ==
    /\ codec.at = "args"
    /\ LET r == CreateUsername(codec.iron, codec.name) IN
       codec' = [codec EXCEPT !.at = IF r.ok THEN "created" ELSE "thrown",
                              !.username = r]
    /\ UNCHANGED <<alive, lockVars, target, day, ironVars, devMode, depVars, lastCall,
                   distVars, week>>

\* parseUsername(username) on the name createUsername returned.
ParseCall ==
    /\ codec.at = "created"
    /\ codec' = [codec EXCEPT !.at = "parsed",
                              !.parsed = ParseUsername(codec.username.value)]
    /\ UNCHANGED <<alive, lockVars, target, day, ironVars, devMode, depVars, lastCall,
                   distVars, week>>

NextCodec ==
    \/ CreateCall
    \/ ParseCall

SpecCodec == InitCodec /\ [][NextCodec]_vars

(***************************************************************************)
(* Properties                                                              *)
(***************************************************************************)
\* The returns of lock(), delivered or still in a resolved promise, whose
\* key passes tryKey on the store of this run.
ValidGrants == {g \in grants : TryKey(lock[target], g.key)}
ValidInflight == {p \in Procs : pc[p] = "granted" /\ TryKey(lock[target], inflight[p])}

\* C1: mutual exclusion.  At most one return of lock() is valid at any time:
\* of all callers whose lock() has returned (or whose promise has been
\* resolved), at most one holds a key that passes tryKey; this holds under
\* every interleaving of lock(), unlock() and the forced release by a timer.
C1_MutualExclusion == Cardinality(ValidGrants) + Cardinality(ValidInflight) <= 1

\* C1 witness: a second caller holds the lock after the first one's grant
\* was released, while a third one waits.
C1_Witness ==
    /\ Cardinality(grants) >= 2
    /\ Cardinality(ValidGrants) = 1
    /\ released # {}
    /\ Len(lock[target].waiting) > 0

\* C2: FIFO granting.  The wait queue is in the order of the lock() calls and
\* every queued call was made after the call granted last: grants follow the
\* order of the calls and no lock() call overtakes a waiter.
C2_Fifo ==
    LET W == lock[target].waiting IN
    /\ \A i, j \in 1..Len(W) : i < j => ticket[W[i]] < ticket[W[j]]
    /\ \A i \in 1..Len(W) : lastGranted[target] < ticket[W[i]]

\* C2 witness: the head of a queue of two was granted while the second waits.
C2_Witness ==
    /\ Len(lock[target].waiting) > 0
    /\ \E p \in Procs : pc[p] = "granted" /\ ticket[p] = lastGranted[target]
    /\ released # {}
    /\ calls >= 3

\* The keyed operations of the two stores.
KeyedLedgerOps == {"readIron", "writeIron", "incrementDeploymentTracker",
                   "getCurrentWeekTimestamp"}
KeyedSessionOps == {"isDeploymentActive", "startDeployment", "endDeployment",
                    "reportJoin", "reportLeave", "getQualifiedMembers",
                    "getMemberData"}

\* k is the currently valid token of the store of this run.
CurrentToken(k) == k # NoKey /\ k = lock[target].locked

\* C3 (state part): in every reachable state, unlock() and every keyed store
\* operation called with a key that is not the currently valid token (a
\* released or expired key, a foreign value, the empty key, any key while
\* nothing is held) fails with a lock violation and leaves the lock and the
\* store as they are; a key whose grant was released is not the token held.
C3_InvalidKeyRejected ==
    /\ \A k \in KnownKeys : ~CurrentToken(k) =>
          /\ UnlockCall(lock[target], k, uuid + 1)
                = [res |-> "LockViolation", lock |-> lock[target]]
          /\ target = "iron" =>
                \A op \in KeyedLedgerOps, S \in CallLists, t \in Types :
                    IronCall(op, k, S, t) = IronResult("LockViolation", iron, ironFile)
          /\ target = "dep" =>
                \A op \in KeyedSessionOps, m \in CallMembers, name \in OperationNames :
                    DepCall(op, k, m, name)
                        = DepResult("LockViolation", act, actFile, starting)
    /\ lock[target].locked \notin released
    /\ \A p \in Procs : pc[p] = "granted" => inflight[p] \notin released

\* C3 (step part): a call that ended in a lock violation changed neither the
\* lock (holder, wait queue, countdown) nor either store, and a released key
\* stays released.
C3_ViolationStep ==
    /\ lastCall'.res = "LockViolation" =>
          UNCHANGED <<lock, pc, inflight, ironVars, act, actFile, starting>>
    /\ released \subseteq released'

\* C3: token validation.
C3_TokenValidation == [](C3_InvalidKeyRejected) /\ [][C3_ViolationStep]_vars

\* C3 witness: with a deployment active and the lock held by a second grant,
\* endDeployment was called with a key that is not the token (the released
\* key of the first grant among the known ones) and threw.
C3_Witness ==
    /\ lastCall = Call("endDeployment", "LockViolation")
    /\ act.active
    /\ released # {}
    /\ lock[target].locked # NoKey

\* C4 (state part): a held lock has exactly one armed countdown, that of the
\* current grant; an unlocked lock has none; no countdown is armed for a
\* grant that was released.
C4_OneCountdown ==
    LET L == lock[target] IN
    /\ L.locked # NoKey => (L.timers = {L.locked} /\ L.timeout = L.locked)
    /\ L.locked = NoKey => (L.timers = {} /\ L.timeout = NoTimer)
    /\ L.timers \cap released = {}

\* C4 (step part): a countdown that expires releases the lock by force: the
\* expired key no longer passes tryKey, the head waiter is granted or, with
\* nobody waiting, the lock is unlocked, and the fault raised ends the
\* process: after it only pending continuations run, then the process exits.
C4_ExpiryStep ==
    LET L == lock[target]
        M == lock'[target]
    IN  /\ (alive = "up" /\ alive' = "fatal") =>
              /\ L.locked # NoKey
              /\ ~TryKey(M, L.locked)
              /\ L.locked \in released'
              /\ IF Len(L.waiting) > 0
                 THEN /\ M.locked # NoKey
                      /\ M.waiting = Tail(L.waiting)
                      /\ pc'[Head(L.waiting)] = "granted"
                      /\ inflight'[Head(L.waiting)] = M.locked
                 ELSE M.locked = NoKey
        /\ alive = "fatal" =>
              \/ alive' = "down"
              \/ (alive' = "fatal" /\ lock' = lock /\ \E p \in Procs : pc[p] = "granted")
        /\ alive = "down" => UNCHANGED vars

\* C4: lock expiry.
C4_LockExpiry == [](C4_OneCountdown) /\ [][C4_ExpiryStep]_vars

\* C4 witness: a countdown expired with a waiter queued; the waiter holds the
\* new grant and the process has exited.
C4_Witness ==
    /\ alive = "down"
    /\ lock[target].locked # NoKey
    /\ \E g \in grants : g.key = lock[target].locked

LedgerAccess == {"readIron", "writeIron", "incrementDeploymentTracker",
                 "getCurrentWeekTimestamp"}

C5_ValidationStep ==
    /\ (lastCall'.op \in {"lock", "getCurrentWeekTimestamp"} /\ lastCall'.res = "ok") =>
          /\ iron'.weekTimestamp = CalcCurWeekTimestamp(day)
          /\ iron.weekTimestamp # CalcCurWeekTimestamp(day) =>
                (iron'.members = << >> /\ ironFile' = iron')
          /\ iron.weekTimestamp = CalcCurWeekTimestamp(day) => iron' = iron
    /\ (lastCall'.op \in {"readIron", "writeIron", "incrementDeploymentTracker"}
           /\ lastCall'.res = "ok") =>
          iron'.weekTimestamp = iron.weekTimestamp

CountOf(username) == ParseUsername(username).iron

IssuesOf(m, cat) == {r \in issuedLog : r.m = m /\ r.cat = cat}

\* C6 as claimed: a batch that classifies a member as already granted
\* (notIssued) causes no increment of the count in the member's name.
C6_NotIssuedNeverRenames ==
    \A b \in Batches : \A m \in Range(batch[b].results.notIssued) :
        m \notin batch[b].renamed

\* C6 as amended: with no week rollover, over all distribute calls a member
\* is newly issued a category at most once and the ledger keeps the flag; a
\* later request for that member and category is classified notIssued and
\* is not in the issue list; the count in the name never rises by more
\* than the number of grants written for the member; a batch that reports a
\* member notIssued renames them only for the bonus commendation it wrote.
C6_OneIssuePerWeek ==
    /\ \A m \in Members, cat \in Types :
          /\ Cardinality(IssuesOf(m, cat)) <= 1
          /\ IssuesOf(m, cat) # {} => (m \in DOMAIN iron.members /\ iron.members[m][cat])
    /\ \A m \in Members :
          ParseUsername(origName[m]).ok /\ ParseUsername(displayName[m]).ok =>
              CountOf(displayName[m])
                  <= CountOf(origName[m]) + Cardinality({r \in issuedLog : r.m = m})
    /\ \A b \in Batches : \A m \in Range(batch[b].results.notIssued) :
          /\ m \notin Range(batch[b].attemptTo.issue)
          /\ m \in batch[b].renamed =>
                /\ batch[b].type = "deployment"
                /\ m \in Range(batch[b].attemptTo.commend)
                /\ [b |-> b, m |-> m, cat |-> "commendation"] \in issuedLog

\* C6 witness: '[ IV ] Trooper' was issued a deployment grant by one batch and
\* is '[ V ] Trooper'; the other deployment batch has returned with the member
\* in notIssued.
C6_Witness ==
    /\ origName["m1"] = TrooperIV /\ displayName["m1"] = TrooperV
    /\ \A b \in Batches : pc[b] = "done" /\ batch[b].type = "deployment"
    /\ batch["b1"].results.issued = <<"m1">>
    /\ batch["b2"].results.notIssued = <<"m1">>
    /\ Cardinality(IssuesOf("m1", "deployment")) = 1

Max(a, b) == IF a > b THEN a ELSE b

\* The occurrences of m the classification loop of B has handled.
Handled(B, m) == Occurrences(SubSeq(B.members, 1, B.i - 1), m)

\* C7 (state part): in one batch a member id is put at most once in the
\* issue list, the participation list, the commend list and the name
\* updates; of the occurrences handled so far all but the first are in the
\* duplicates bucket.
C7_FirstOccurrenceOnly ==
    \A b \in Batches : \A m \in Members :
        LET B == batch[b] IN
        /\ Occurrences(B.attemptTo.issue, m) <= 1
        /\ Occurrences(B.attemptTo.markParticipated, m) <= 1
        /\ Occurrences(B.attemptTo.commend, m) <= 1
        /\ Occurrences(NameList(B), m) <= 1
        /\ Occurrences(B.completedIDs, m) <= 1
        /\ Occurrences(B.results.duplicates, m) = Max(0, Handled(B, m) - 1)
        /\ Occurrences(B.results.issued \o B.results.commendedForService, m) <= 1

\* C7 (step part): one step (one batch's writes) raises a member's
\* participation count by at most one.
C7_OneIncrement ==
    \A m \in Members :
        ReadIronValue(iron', m).numDeployments <= ReadIronValue(iron, m).numDeployments + 1

\* C7: duplicates within one batch.
C7_Duplicates == [](C7_FirstOccurrenceOnly) /\ [][C7_OneIncrement]_vars

\* C7 witness: distribute([m1, m1], 'deployment') on a fresh ledger returned
\* one issued entry and one duplicate entry, with one participation counted.
C7_Witness ==
    /\ batch["b1"].members = <<"m1", "m1">> /\ batch["b1"].type = "deployment"
    /\ pc["b1"] = "done" /\ pc["b2"] = "idle"
    /\ batch["b1"].results.issued = <<"m1">>
    /\ batch["b1"].results.duplicates = <<"m1">>
    /\ iron.members["m1"].numDeployments = 1
    /\ displayName["m1"] = TrooperV

\* The batch has an external name or role mutation under way or done.
Mutating(B) == B.at \in {"setNickname", "fetch", "set"} \/ B.renamed # {}

\* C8 (state part): a batch with a name or role mutation under way or done
\* has released its key, and its key is not the token of the ledger lock.
C8_MutationAfterRelease ==
    \A b \in Batches :
        Mutating(batch[b]) =>
            /\ batch[b].key \in released
            /\ lock["iron"].locked # batch[b].key

\* C8 (step part): a step that reads the ledger for a batch (classification
\* moves on) or writes the ledger is taken by a batch whose key is the token
\* of the ledger lock; the step that writes releases that key; a step that
\* changes a name or a role for a batch is taken by a batch that released
\* its key before; a batch is granted one key and keeps no other.
C8_LedgerUnderLock ==
    /\ \A b \in Batches :
          batch'[b].i # batch[b].i =>
              (batch[b].key # NoKey /\ lock["iron"].locked = batch[b].key)
    /\ (iron' # iron \/ ironFile' # ironFile) =>
          \E b \in Batches :
              /\ batch[b].key # NoKey /\ lock["iron"].locked = batch[b].key
              /\ batch[b].key \notin released /\ batch[b].key \in released'
              /\ batch'[b].at = "unlock"
    /\ (batch' # batch /\ (displayName' # displayName \/ roles' # roles)) =>
          \E b \in Batches :
              /\ batch[b].at \in {"setNickname", "set"}
              /\ batch[b].key \in released
    /\ \A b \in Batches : batch[b].key # NoKey => batch'[b].key = batch[b].key

\* C8: ordering in distribute.
C8_Ordering == [](C8_MutationAfterRelease) /\ [][C8_LedgerUnderLock]_vars

\* C8 witness: the first batch has a setNickname call under way and the
\* second batch holds the ledger lock.
C8_Witness ==
    /\ batch["b1"].at = "setNickname" /\ pc["b1"] = "await"
    /\ batch["b2"].key # NoKey
    /\ lock["iron"].locked = batch["b2"].key

\* C9 as claimed: a failed name or role mutation never ends distributeIron
\* with an exception, and a member whose name or role mutation failed is
\* neither in issued nor in commendedForService.
C9_FaultTolerance ==
    \A b \in Batches :
        /\ batch[b].error \notin {"fetch", "set"}
        /\ \A m \in batch[b].failed :
              m \notin Range(batch[b].results.issued)
                          \cup Range(batch[b].results.commendedForService)

\* The role set a promotion at count 5 is to leave a member with.
Promoted(held) ==
    LET rank == ConfigRanks[NumberToString(5)] IN
    (held \ Range(rank.remove)) \cup Range(rank.add)

\* C10 as claimed: the argument of roles.set is the member's current role
\* set minus the remove roles plus the add roles, so a member's roles are
\* those held at the start or those with the promotion applied.
C10_RoleAdjustment ==
    /\ \A b \in Batches :
          batch[b].at = "set" =>
              Range(batch[b].newRoles) = Promoted(roles[NameList(batch[b])[batch[b].j]])
    /\ \A m \in Members : roles[m] \in {InitRoles[m], Promoted(InitRoles[m])}

\* The display name decodes to the envoy sentinel.
DecodesToEnvoy(username) == ParseUsername(username).ok /\ CountOf(username) = Envoy

\* C11 (state part): a member who is an envoy from the start has no ledger
\* record and no grant written, is in no issue, participation or commend
\* list of any batch, is renamed by none, keeps the display name, and the
\* first occurrence a batch has handled is in skippedEnvoys.
C11_EnvoySkipped ==
    \A m \in Members :
        DecodesToEnvoy(origName[m]) =>
            /\ displayName[m] = origName[m]
            /\ m \notin DOMAIN iron.members /\ m \notin DOMAIN ironFile.members
            /\ \A r \in issuedLog : r.m # m
            /\ \A b \in Batches :
                  LET B == batch[b] IN
                  /\ m \notin Range(B.attemptTo.issue) \cup Range(B.attemptTo.commend)
                                \cup Range(B.attemptTo.markParticipated)
                  /\ m \notin B.renamed
                  /\ m \notin Range(B.results.issued) \cup Range(B.results.notIssued)
                                \cup Range(B.results.invalidName)
                                \cup Range(B.results.commendedForService)
                  /\ Occurrences(B.results.skippedEnvoys, m)
                        = (IF Handled(B, m) >= 1 THEN 1 ELSE 0)

\* C11 (step part): no step changes the count of a member whose display
\* name decodes to the envoy sentinel.
C11_EnvoyStaysEnvoy ==
    \A m \in Members :
        DecodesToEnvoy(displayName[m]) => DecodesToEnvoy(displayName'[m])

\* C11: envoy exclusion.
C11_EnvoyExclusion == [](C11_EnvoySkipped) /\ [][C11_EnvoyStaysEnvoy]_vars

\* C11 witness: distribute([m2, m1], 'deployment') returned with the envoy m2
\* skipped and m1 issued.
C11_Witness ==
    /\ DecodesToEnvoy(origName["m2"])
    /\ pc["b1"] = "done" /\ batch["b1"].type = "deployment"
    /\ batch["b1"].results.skippedEnvoys = <<"m2">>
    /\ batch["b1"].results.issued = <<"m1">>
    /\ displayName["m2"] = origName["m2"]

\* The display name does not decode.
Malformed(username) == ~ParseUsername(username).ok

\* distributeIron of b was rejected at line 55, while it handled the malformed
\* name of m.
RejectedAtMalformed(b, m) ==
    /\ pc[b] = "aborted"
    /\ batch[b].i <= Len(batch[b].members)
    /\ batch[b].members[batch[b].i] = m
    /\ Malformed(displayName[m])

\* A member whose name does not decode gets no ledger record and no grant,
\* and once the notice of line 55 is logged the first occurrence is in
\* invalidName and in no other list.
C12_MalformedWhenLogged ==
    \A m \in Members :
        Malformed(origName[m]) =>
            /\ displayName[m] = origName[m]
            /\ m \notin DOMAIN iron.members /\ m \notin DOMAIN ironFile.members
            /\ \A r \in issuedLog : r.m # m
            /\ \A b \in Batches :
                  LET B == batch[b] IN
                  /\ m \notin Range(NameList(B)) \cup Range(B.attemptTo.markParticipated)
                  /\ m \notin B.renamed
                  /\ Occurrences(B.results.invalidName, m)
                        = (IF Handled(B, m) >= 1 THEN 1 ELSE 0)

\* C12: a member whose display name fails to decode is placed in invalidName,
\* gets no ledger grant and no participation increment, and distribute is
\* never rejected while it handles that member: the loop goes on to the
\* remaining members.
C12_MalformedIdentity ==
    /\ C12_MalformedWhenLogged
    /\ \A b \in Batches : \A m \in Members : ~RejectedAtMalformed(b, m)

\* A batch [m2, m1] with m2 malformed has returned: m2 is in invalidName and m1
\* was classified and issued.
C12_Logged ==
    /\ Malformed(origName["m2"])
    /\ pc["b1"] = "done"
    /\ batch["b1"].results.invalidName = <<"m2">>
    /\ batch["b1"].results.issued = <<"m1">>

\* The counts a name can carry: the envoy's and 0 to 500.
ValidCounts == {Envoy} \cup 0..500

\* C13: parseUsername(createUsername(c, n)) = (c, n) for every count c in
\* {-10} and 0..500 and every non-empty name n that createUsername does not
\* cut, in each of the four forms; createUsername does not throw for them.
C13_RoundTrip ==
    (/\ codec.iron \in ValidCounts
     /\ Len(codec.name) >= 1
     /\ ~Truncates(codec.iron, codec.name))
    => /\ codec.at # "thrown"
       /\ codec.at = "parsed" => codec.parsed = Parsed(codec.iron, codec.name)

\* C13 witness: the compact decimal form, not cut, decoded to its arguments.
C13_Witness ==
    /\ codec.at = "parsed"
    /\ codec.iron = 388 /\ Len(codec.name) >= 1
    /\ ~Truncates(codec.iron, codec.name)
    /\ codec.username.value = Compact(NumberToString(codec.iron), codec.name)
    /\ codec.parsed = Parsed(codec.iron, codec.name)

\* The four forms reached and decoded back (padded and compact numerals,
\* padded and compact decimal).
C13_PaddedNumerals ==
    /\ codec.at = "parsed" /\ codec.iron = 388
    /\ codec.username.value = Padded(ToRoman(388), codec.name)
    /\ codec.parsed = Parsed(codec.iron, codec.name)
C13_CompactNumerals ==
    /\ codec.at = "parsed" /\ codec.iron = Envoy
    /\ codec.username.value = Compact(<<"E">>, codec.name)
    /\ codec.parsed = Parsed(codec.iron, codec.name)
C13_PaddedDecimal ==
    /\ codec.at = "parsed" /\ codec.iron = 388
    /\ codec.username.value = Padded(NumberToString(388), codec.name)
    /\ codec.parsed = Parsed(codec.iron, codec.name)

\* C14: for every count of at least -10 and every name createUsername
\* returns, and the string it returns has at most 32 characters.
C14_LengthBound ==
    /\ codec.at = "thrown" => codec.iron < Envoy
    /\ codec.at \in {"created", "parsed"} => Len(codec.username.value) <= NameLimit

\* C14 witness: the last branch cut a longer string to 32 characters.
C14_Witness ==
    /\ codec.at = "created"
    /\ Truncates(codec.iron, codec.name)
    /\ Len(Compact(NumberToString(codec.iron), codec.name)) > NameLimit
    /\ Len(codec.username.value) = NameLimit

\* A cut name decodes to the count and to a non-empty prefix of the name.
DecodesToPrefix ==
    /\ codec.parsed.ok
    /\ codec.parsed.iron = codec.iron
    /\ Len(codec.parsed.name) >= 1
    /\ codec.parsed.name = SubSeq(codec.name, 1, Len(codec.parsed.name))

\* C15: for every count in {-10} and 0..500 and every name long enough to be
\* cut, createUsername(c, n) decodes to c and a non-empty prefix of n.
C15_OverflowDecodable ==
    (/\ codec.at = "parsed"
     /\ codec.iron \in ValidCounts
     /\ Truncates(codec.iron, codec.name))
    => DecodesToPrefix

\* The same for the counts 0 to 500 only.
C15_NumericOverflowDecodable ==
    (/\ codec.at = "parsed"
     /\ codec.iron \in 0..500
     /\ Truncates(codec.iron, codec.name))
    => DecodesToPrefix

\* A cut name of count 500 decoded.
C15_NumericOverflow ==
    /\ codec.at = "parsed" /\ codec.iron = 500
    /\ Truncates(codec.iron, codec.name)
    /\ DecodesToPrefix

\* C16: startDeployment called while a session is active fails and leaves
\* the session in memory and on disk as it was: active flag, label, log
\* handle, every member's joined and totalTime, and the log.
C16_StartStep ==
    (lastCall'.op = "startDeployment" /\ act.active)
    => /\ lastCall'.res = "AlreadyActive"
       /\ act' = act /\ actFile' = actFile
       /\ depLog' = depLog /\ starting' = starting

C16_StartWhileActive == [][C16_StartStep]_vars

\* C16 witness: startDeployment has just failed on an active session with an
\* open member.
C16_Witness ==
    /\ lastCall = Call("startDeployment", "AlreadyActive")
    /\ act.active /\ Open(act) # {} /\ actFile = act

\* C17: endDeployment on an active session sets active to false, closes every
\* open member at the one endTime (totalTime + endTime - joined, joined
\* null), leaves the closed members as they are and leaves nobody open; on an
\* inactive session it fails and changes nothing.
C17_EndStep ==
    lastCall'.op = "endDeployment"
    => IF act.active
       THEN /\ lastCall'.res = "ok"
            /\ ~act'.active
            /\ act'.operationName = act.operationName /\ act'.started = act.started
            /\ DOMAIN act'.members = DOMAIN act.members
            /\ \A m \in DOMAIN act.members :
                  act'.members[m] =
                      IF act.members[m].joined # Null
                      THEN ClosedRecord(act.members[m].totalTime
                                           + (now - act.members[m].joined))
                      ELSE act.members[m]
            /\ Open(act') = {}
            /\ actFile' = act'
       ELSE /\ lastCall'.res = "NotActive"
            /\ act' = act /\ actFile' = actFile /\ depLog' = depLog

C17_EndDeployment == [][C17_EndStep]_vars

\* C17 witness: endDeployment has just closed two open members (a LEAVE line
\* each and the notice) at an endTime later than their joined.
C17_Witness ==
    /\ lastCall = Call("endDeployment", "ok")
    /\ ~act.active /\ depLog = 3
    /\ DOMAIN act.members = {"m1", "m2"}
    /\ \A m \in DOMAIN act.members : act.members[m] = ClosedRecord(1)

\* startDeployment returned without an error.
StartReturned(call) ==
    call.op = "startDeployment.end" /\ call.res \in {"started", "notFound"}

\* The session is active under the label, and its members are exactly the
\* members present, open since t with no time counted.
Seeded(A, name, P, t) ==
    /\ A.active /\ A.operationName = name
    /\ DOMAIN A.members = P
    /\ \A m \in P : A.members[m] = OpenRecord(t, 0)

\* C18: a startDeployment call on an inactive session that returns without
\* an error leaves the session active, with the data of the earlier session
\* cleared and exactly the members present as members, each open since the
\* call with totalTime 0 (the command reports success when the call returns).
C18_StartStep ==
    StartReturned(lastCall') => (Seeded(act', starting[1], present, now) /\ actFile' = act')

C18_StartSeeds == [][C18_StartStep]_vars

\* The same when the guild and the category were fetched.
C18_StartedStep ==
    (lastCall'.op = "startDeployment.end" /\ lastCall'.res = "started")
    => (Seeded(act', starting[1], present, now) /\ actFile' = act')

C18_StartedSeeds == [][C18_StartedStep]_vars

\* startDeployment has just returned on a session it left reset and inactive.
C18_SilentReturn ==
    /\ lastCall = Call("startDeployment.end", "notFound")
    /\ ~act.active /\ act = NewActivity /\ present # {}

\* C19: when runRecovery has reconciled the records with the members the
\* voice channels report, a member is open iff present: open and present
\* keeps the record; present and not open is opened at the recovery time
\* with totalTime kept; open and not present is closed with totalTime
\* increased by recovery time - joined; the others keep their record.
C19_RecoveryStep ==
    (lastCall'.op = "runRecovery.end" /\ lastCall'.res = "ok")
    => /\ Open(act') = present
       /\ DOMAIN act'.members = (DOMAIN act.members) \cup present
       /\ \A m \in DOMAIN act'.members :
             LET old == IF m \in DOMAIN act.members THEN act.members[m] ELSE NewRecord IN
             act'.members[m] =
                 CASE m \in present /\ old.joined # Null -> old
                   [] m \in present /\ old.joined = Null -> OpenRecord(now, old.totalTime)
                   [] m \notin present /\ old.joined # Null ->
                         ClosedRecord(old.totalTime + (now - old.joined))
                   [] OTHER -> old
       /\ act'.active = act.active
       /\ actFile' = act'

C19_Reconciliation == [][C19_RecoveryStep]_vars

\* C19 witness: stored {m1: open, m2: open}, only m1 present: m1 is left open as
\* it was and m2 closed with the time since it joined.
C19_Witness ==
    /\ lastCall = Call("runRecovery.end", "ok")
    /\ present = {"m1"}
    /\ DOMAIN act.members = {"m1", "m2"}
    /\ act.members["m1"] = OpenRecord(1, 0)
    /\ act.members["m2"] = ClosedRecord(1)

\* C20 (state part): the store requires recovery iff the document loaded at
\* construction was active and runRecovery has not been called.
C20_Flagged == recoveryRequired = (rec.loaded /\ rec.calls = 0)

\* C20 (step part): a runRecovery call made when recovery is not required,
\* as every call after the first is, changes no record, neither the
\* persisted document nor the log nor the lock.
C20_RunStep ==
    lastCall'.op = "runRecovery"
    => /\ rec.calls >= 1 => ~recoveryRequired
       /\ ~recoveryRequired =>
             /\ lastCall'.res = "notRequired"
             /\ act' = act /\ actFile' = actFile /\ depLog' = depLog
             /\ lock' = lock /\ pc' = pc

\* C20: recovery is flagged and idempotent.
C20_Idempotent == [](C20_Flagged) /\ [][C20_RunStep]_vars

\* C20 witness: runRecovery reconciled an active document, and a second call
\* has just returned.
C20_Witness ==
    /\ rec.loaded /\ rec.calls = 2
    /\ pc[Recovery] = "done" /\ lock["dep"].locked = NoKey
    /\ lastCall = Call("runRecovery", "notRequired")
    /\ depLog >= 2

\* The document a store holds in memory and the document in its file.
Memory(s) == IF s = "iron" THEN iron ELSE act
File(s) == IF s = "iron" THEN ironFile ELSE actFile

\* The calls that change a store.
MutatingOps == {"writeIron", "incrementDeploymentTracker", "resetIron", "reportJoin",
                "reportLeave", "startDeployment", "startDeployment.end",
                "endDeployment", "runRecovery.end"}

\* C21 (state part): whenever the lock of a store is free, the document in
\* its file is the document in memory, so the constructor of a process
\* started at such a point (which assigns the parsed file to the document in
\* memory) finds the state the last completed operation produced.
C21_Persisted == \A s \in Stores : lock[s].locked = NoKey => File(s) = Memory(s)

\* C21 (step part): a step that writes a file writes the whole document in
\* memory, and a mutating operation that completes has written it.
C21_WriteStep ==
    /\ \A s \in Stores : File(s)' # File(s) => File(s)' = Memory(s)'
    /\ (lastCall'.op \in MutatingOps /\ lastCall'.res \in {"ok", "started"})
          => File(target)' = Memory(target)'

C22_FailedReportStep ==
    (lastCall'.op \in {"reportJoin", "reportLeave"} /\ lastCall'.res = "InvalidTransition")
    => /\ alive' = "up"
       /\ \A v \in VoiceHandlers : pc[v] = "locked" => KeyOf(v) \in released'

C22_InvalidTransitionSurvivable == [][C22_FailedReportStep]_vars

\* C23 (state part): in every state, resetIron called with any key outside
\* development mode fails and leaves the ledger and its file as they are; in
\* development mode with the token it returns, and the ledger and the file
\* hold no record and the week start calcCurWeekTimestamp gives now.
C23_ResetInState ==
    \A k \in KnownKeys :
        LET r == ResetIron(lock["iron"], iron, ironFile, day, devMode, k) IN
        IF ~devMode
        THEN r.res = "NotDevMode" /\ r.iron = iron /\ r.file = ironFile
        ELSE TryKey(lock["iron"], k)
             => /\ r.res = "ok"
                /\ r.iron.members = << >>
                /\ r.iron.weekTimestamp = CalcCurWeekTimestamp(day)
                /\ r.file = r.iron

\* C23 (step part): the resetIron calls made.
C23_ResetStep ==
    lastCall'.op = "resetIron"
    => /\ lastCall'.res = "ok" => (devMode /\ iron'.members = << >> /\ ironFile' = iron'
                                   /\ iron'.weekTimestamp = CalcCurWeekTimestamp(day))
       /\ lastCall'.res # "ok" => (iron' = iron /\ ironFile' = ironFile)
       /\ ~devMode => lastCall'.res = "NotDevMode"

C23_DevOnlyReset == [](C23_ResetInState) /\ [][C23_ResetStep]_vars

\* C23 witness: resetIron has just emptied the ledger in development mode, in
\* the week the ledger was already in.
C23_Witness ==
    /\ lastCall = Call("resetIron", "ok") /\ devMode
    /\ day = StartDay
    /\ iron = [weekTimestamp |-> CalcCurWeekTimestamp(StartDay), members |-> << >>]
    /\ ironFile = iron

\* C24: calcCurWeekTimestamp called at any instant of any weekday returns the
\* midnight of a Tuesday that is not later than the instant and less than
\* seven days before it: the most recent Tuesday 00:00 UTC.
C24_WeekBoundary ==
    week.at = "returned"
    => /\ week.result % DayLength = 0
       /\ Weekday(week.result \div DayLength) = 2
       /\ week.result <= week.instant
       /\ week.instant - week.result < ToMillis(7)

\* C24 witness: called in the last instant of a Monday, it returned the
\* midnight of the Tuesday six days before.
C24_Witness ==
    /\ week.at = "returned"
    /\ Weekday(StartOfDay(week.instant)) = 1
    /\ week.instant % DayLength = DayLength - 1
    /\ week.instant - week.result = ToMillis(7) - 1

\* The entries a step adds to namePermsError of batch b.
NewRefusals(b) ==
    {batch'[b].results.namePermsError[k] :
        k \in (Len(batch[b].results.namePermsError) + 1)..
                Len(batch'[b].results.namePermsError)}

\* The grant of member m by batch B is in ledger I.
GrantRecorded(B, I, m) ==
    /\ Includes(B.attemptTo.issue \o B.attemptTo.commend, m)
    /\ Includes(B.attemptTo.issue, m) => ReadIronValue(I, m)[B.type]
    /\ Includes(B.attemptTo.commend, m) => ReadIronValue(I, m).commendation

\* What C25 states of an entry e = <<member, numerals>> that batch b adds,
\* apart from the numerals.
RefusedEntry(b, e) ==
    /\ ~manageable[e[1]]
    /\ ParseUsername(displayName[e[1]]).ok
    /\ displayName'[e[1]] = displayName[e[1]]
    /\ e[1] \notin batch'[b].renamed
    /\ GrantRecorded(batch'[b], iron', e[1])
    /\ GrantRecorded(batch'[b], ironFile', e[1])
    /\ ~Includes(batch'[b].results.issued, e[1])

\* C25: a member whose name change is refused for want of manageability is
\* reported in namePermsError with the numerals of the count in the name
\* plus one; the grant stays in the ledger, the name stays as it is and the
\* member is not reported as issued.
C25_RefusedStep ==
    \A b \in Batches : \A e \in NewRefusals(b) :
        /\ RefusedEntry(b, e)
        /\ e[2] = NewNumerals(CountOf(displayName[e[1]]) + 1)

C25_RefusedNameChange == [][C25_RefusedStep]_vars

\* The same of the members whose name holds a count when the batch turns to
\* them; of a member made envoy since the grant, the numerals reported.
C25_RefusedCountedStep ==
    \A b \in Batches : \A e \in NewRefusals(b) :
        /\ RefusedEntry(b, e)
        /\ e[2] = IF CountOf(displayName[e[1]]) >= 0
                  THEN NewNumerals(CountOf(displayName[e[1]]) + 1)
                  ELSE NumberToString(Envoy)

C25_RefusedCounted == [][C25_RefusedCountedStep]_vars

\* A refused name change of a member with a count, reported with the next
\* count.
C25_CountedRefusal ==
    \E b \in Batches :
        /\ batch[b].at = "return"
        /\ batch[b].results.namePermsError = <<(<<"m1", ToRoman(5)>>)>>
        /\ displayName["m1"] = TrooperIV

\* C26 as stated: a batch makes one durable write, and every document it
\* persists holds all of its changes.
C26_SingleWrite ==
    \A b \in Batches :
        LET W == batch[b].writes IN
        W # <<>> => Len(W) = 1 /\ \A k \in 1..Len(W) : W[k] = W[Len(W)]

\* C26 (step part): the step of a batch that writes the ledger makes two
\* writes, or three when it grants a bonus, whatever the number of members:
\* all its grants, then all its participation increments, then all its bonus
\* grants.  It writes once per batch, under the lock that it then releases,
\* and leaves the file equal to the document in memory.
C26_WriteStep ==
    \A b \in Batches :
        batch'[b].writes # batch[b].writes =>
            LET B == batch'[b]
                W == B.writes
            IN  /\ batch[b].writes = <<>>
                /\ Len(W) = IF B.attemptTo.commend # <<>> THEN 3 ELSE 2
                /\ W[1] = WriteIronValue(iron, B.attemptTo.issue, B.type)
                /\ W[2] = IncrementValue(W[1], B.attemptTo.markParticipated)
                /\ Len(W) = 3 => W[3] = WriteIronValue(W[2], B.attemptTo.commend,
                                                       "commendation")
                /\ ironFile' = W[Len(W)]
                /\ iron' = ironFile'
                /\ TryKey(lock["iron"], B.key)
                /\ ~TryKey(lock'["iron"], B.key)

\* C26 (state part): the file changes in no other step of a batch.
C26_FileStep ==
    ironFile' # ironFile => \E b \in Batches : batch'[b].writes # batch[b].writes

C26_BatchWrites == [][C26_WriteStep /\ C26_FileStep]_vars

\* C26 witness: a batch of two members wrote three documents, the first
\* with its grants and without its increments.
C26_Witness ==
    \E b \in Batches :
        LET W == batch[b].writes IN
        /\ Len(batch[b].attemptTo.markParticipated) = 2
        /\ Len(W) = 3
        /\ W[1] # W[2] /\ W[2] # W[3]
        /\ ironFile = W[3]

\* The members of the pairs in namePermsError.
RefusedMembers(R) == [k \in 1..Len(R.namePermsError) |-> R.namePermsError[k][1]]

\* The number of places member m has in the buckets of result R.
Placed(R, m) ==
    Occurrences(R.issued, m) + Occurrences(R.notIssued, m)
        + Occurrences(R.duplicates, m) + Occurrences(R.invalidName, m)
        + Occurrences(RefusedMembers(R), m) + Occurrences(R.rankPermsError, m)
        + Occurrences(R.skippedEnvoys, m) + Occurrences(R.commendedForService, m)

C27_PassedOver ==
    \E b \in Batches, m \in Members :
        /\ batch[b].at = "return"
        /\ Includes(batch[b].members, m)
        /\ Placed(batch[b].results, m) = 0

\* The distinct members of the input of B whose name holds a count.
Counted(B) ==
    {m \in Range(B.members) :
        ParseUsername(displayName[m]).ok /\ CountOf(displayName[m]) >= 0}

\* C28 (step part): the step in which a batch writes the ledger grants the
\* bonus commendation to exactly the counted members of a deployment batch
\* that had a participation count of 4 or more and no commendation flag
\* before it; it raises the participation count by one for each counted
\* member of a deployment batch, already granted or not, and for nobody
\* else; a commendation flag is set by it for the bonus or the manual grant
\* only.
C28_BonusStep ==
    \A b \in Batches :
        batch'[b].writes # batch[b].writes =>
            LET B == batch'[b]
                deployment == B.type = "deployment"
            IN  \A m \in Members :
                    LET old == ReadIronValue(iron, m)
                        new == ReadIronValue(iron', m)
                    IN  /\ Includes(B.attemptTo.markParticipated, m)
                              <=> (deployment /\ m \in Counted(B))
                        /\ Occurrences(B.attemptTo.markParticipated, m) <= 1
                        /\ Includes(B.attemptTo.commend, m)
                              <=> /\ deployment /\ m \in Counted(B)
                                  /\ old.numDeployments >= 4
                                  /\ ~old.commendation
                        /\ new.numDeployments = old.numDeployments
                              + IF deployment /\ m \in Counted(B) THEN 1 ELSE 0
                        /\ new.commendation
                              <=> \/ old.commendation
                                  \/ Includes(B.attemptTo.commend, m)
                                  \/ ~deployment /\ Includes(B.attemptTo.issue, m)
                        /\ [b |-> b, m |-> m, cat |-> "commendation"] \in issuedLog'
                              <=> new.commendation /\ ~old.commendation

\* C28 (frame part): no other step changes the ledger or the grants written.
C28_OtherStep ==
    (\A b \in Batches : batch'[b].writes = batch[b].writes)
        => iron' = iron /\ issuedLog' = issuedLog

\* C28 (state part): a member is granted a commendation, manual or bonus, at
\* most once in the week.
C28_OneCommendation ==
    \A m \in Members : Cardinality(IssuesOf(m, "commendation")) <= 1

C28_BonusRule == [](C28_OneCommendation) /\ [][C28_BonusStep /\ C28_OtherStep]_vars

\* C28 witness: m1, at 4 counted deployments and already granted, was given
\* the bonus by a deployment batch and stands at 5; the other batch, a
\* deployment too, counted a 6th and gave no second commendation.
C28_Witness ==
    /\ ReadIronValue(iron, "m1").numDeployments = 6
    /\ ReadIronValue(iron, "m1").commendation
    /\ \A b \in Batches : batch[b].type = "deployment" /\ batch[b].writes # <<>>
    /\ \E b \in Batches : batch[b].results.notIssued = <<"m1">>
                               /\ batch[b].attemptTo.commend = <<>>

\* The record of member m in document A, as reportJoin and reportLeave
\* find it.
RecordOf(A, m) == IF m \in DOMAIN A.members THEN A.members[m] ELSE NewRecord

\* C29 (call part): the voice handler's reportJoin succeeds iff the member
\* is not open, and then sets joined to now and leaves totalTime; its
\* reportLeave succeeds iff the member is open, and then clears joined and
\* adds now - joined to totalTime; a call that fails opens and closes
\* nobody; no call touches another member's record.
C29_ReportStep ==
    \A v \in VoiceHandlers :
        (pc[v] = "locked" /\ lastCall'.op \in {"reportJoin", "reportLeave"}) =>
            LET m == event[v].member
                old == RecordOf(act, m)
                ok == lastCall'.res = "ok"
            IN  /\ lastCall'.op = IF event[v].join THEN "reportJoin" ELSE "reportLeave"
                /\ lastCall'.res \in {"ok", "InvalidTransition"}
                /\ event[v].join =>
                      /\ ok <=> m \notin Open(act)
                      /\ ok => act'.members[m] =
                                   [joined |-> now, totalTime |-> old.totalTime]
                /\ ~event[v].join =>
                      /\ ok <=> m \in Open(act)
                      /\ ok => act'.members[m] =
                                   [joined |-> Null,
                                    totalTime |-> old.totalTime + (now - old.joined)]
                /\ ~ok => RecordOf(act', m) = old
                /\ \A x \in Members \ {m} : RecordOf(act', x) = RecordOf(act, x)
                /\ act'.active = act.active

\* C29 (state part): a member becomes open only by a reportJoin for that
\* member, the seed at the start of a session or a recovery, and stops
\* being open only by a reportLeave for that member, the end of the
\* session, a recovery or the reset at the start of a session.
C29_OpenStep ==
    \A m \in Members :
        /\ (m \notin Open(act) /\ m \in Open(act')) =>
              \/ /\ lastCall' = Call("reportJoin", "ok")
                 /\ \E v \in VoiceHandlers : pc[v] = "locked" /\ event[v].member = m
              \/ lastCall' = Call("startDeployment.end", "started") /\ m \in present
              \/ lastCall' = Call("runRecovery.end", "ok") /\ m \in present
        /\ (m \in Open(act) /\ m \notin Open(act')) =>
              \/ /\ lastCall' = Call("reportLeave", "ok")
                 /\ \E v \in VoiceHandlers : pc[v] = "locked" /\ event[v].member = m
              \/ lastCall' = Call("endDeployment", "ok")
              \/ lastCall' = Call("runRecovery.end", "ok") /\ m \notin present
              \/ lastCall' = Call("startDeployment", "ok")

C29_JoinLeave == [][C29_ReportStep /\ C29_OpenStep]_vars

\* C29 witness: m1 and m2 were open since instant 1 with a total of 0; m1
\* left at instant 2 and reportLeave closed the record with a total of 1.
C29_Witness ==
    /\ lastCall = Call("reportLeave", "ok")
    /\ now = 2
    /\ "m2" \in Open(act)
    /\ RecordOf(act, "m1") = ClosedRecord(1)

\* C30 (step part): a step changes a member's totalTime only by closing the
\* member (reportLeave, endDeployment, recovery), adding now - joined to it,
\* or by the reset that starts a new session; so the total does not change
\* while joined stays set and never decreases within a session.
C30_TotalStep ==
    \A m \in Members :
        LET old == RecordOf(act, m)
            new == RecordOf(act', m)
        IN  new.totalTime # old.totalTime =>
                \/ /\ lastCall' \in {Call("reportLeave", "ok"), Call("endDeployment", "ok"),
                                     Call("runRecovery.end", "ok")}
                   /\ old.joined # Null
                   /\ new.joined = Null
                   /\ new.totalTime = old.totalTime + (now - old.joined)
                   /\ new.totalTime >= old.totalTime
                \/ /\ lastCall' = Call("startDeployment", "ok")
                   /\ act' = NewActivity

\* C30 (read part): a read of the session store changes neither the
\* document in memory nor the file.
C30_ReadStep == lastCall'.op \in DepReads => act' = act /\ actFile' = actFile

C30_Accumulation == [][C30_TotalStep /\ C30_ReadStep]_vars

\* C30 witness: of a session loaded with m1 open since instant 1 at a total
\* of 1 and m2 closed at a total of 1, getQualifiedMembers was called at
\* instant 2 and left the records as they were.
C30_Witness ==
    /\ lastCall.op = "getQualifiedMembers" /\ lastCall.res = "ok"
    /\ now = 2
    /\ RecordOf(act, "m1") = OpenRecord(1, 1)
    /\ RecordOf(act, "m2") = ClosedRecord(1)
    /\ actFile = act

\* The session above was ended at instant 2: m1 stands at a total of 2, m2
\* still at 1.
C30_Closed ==
    /\ lastCall = Call("endDeployment", "ok")
    /\ RecordOf(act, "m1") = ClosedRecord(2)
    /\ RecordOf(act, "m2") = ClosedRecord(1)

\* C31: a getQualifiedMembers call that returns gives two lists that
\* between them hold every known member id once: in qualified iff totalTime,
\* plus now - joined when the member is open, is at least one hour, in
\* particpated otherwise; the call changes neither the document in memory
\* nor the file.
C31_QualifiedStep ==
    (lastCall'.op = "getQualifiedMembers" /\ lastCall'.res = "ok") =>
        LET v == lastCall'.value IN
        /\ v.qualified \cup v.particpated = DOMAIN act.members
        /\ v.qualified \cap v.particpated = {}
        /\ \A m \in DOMAIN act.members :
              LET r == act.members[m]
                  inProgress == IF r.joined # Null THEN now - r.joined ELSE 0
              IN  m \in v.qualified
                      <=> r.totalTime + inProgress >= MINIMUM_TIME_TO_QUALIFY
        /\ act' = act
        /\ actFile' = actFile

C31_QualificationPartition == [][C31_QualifiedStep]_vars

\* C31 witness: m1, at a total of half an hour and open for half an hour
\* more, is qualified at the boundary; m2, closed at half an hour, is not.
C31_Witness ==
    /\ lastCall.op = "getQualifiedMembers" /\ lastCall.res = "ok"
    /\ RecordOf(act, "m1") = OpenRecord(1, 1)
    /\ now = 2
    /\ lastCall.value = [qualified |-> {"m1"}, particpated |-> {"m2"}]

\* C32 (state part): a lock with a caller in its wait queue is held, and a
\* countdown is pending iff the lock is held.
C32_HeldWhileWaited ==
    \A s \in Stores :
        /\ Len(lock[s].waiting) > 0 => lock[s].locked # NoKey
        /\ lock[s].timers # {} <=> lock[s].locked # NoKey

\* C32 (step part): an unlock that passes tryKey hands the lock to the head
\* of the wait queue under a key never used before, or, with nobody
\* waiting, leaves the lock unlocked.
C32_ReleaseStep ==
    LET L == lock[target]
        M == lock'[target]
    IN  lastCall' = Call("unlock", "ok") =>
            IF Len(L.waiting) > 0
            THEN /\ M.locked # NoKey
                 /\ M.locked # L.locked
                 /\ M.locked \notin Issued \cup released
                 /\ \A p \in Procs : inflight[p] # M.locked
                 /\ M.waiting = Tail(L.waiting)
                 /\ pc'[Head(L.waiting)] = "granted"
                 /\ inflight'[Head(L.waiting)] = M.locked
            ELSE /\ M.locked = NoKey
                 /\ M.waiting = <<>>
                 /\ pc' = pc

C32_HandOver == [](C32_HeldWhileWaited) /\ [][C32_ReleaseStep]_vars

\* C32 witness: an unlock handed the lock to the first of two waiters; the
\* second still waits.
C32_Witness ==
    /\ lastCall = Call("unlock", "ok")
    /\ Len(lock[target].waiting) = 1
    /\ \E p \in Procs : pc[p] = "granted" /\ inflight[p] = lock[target].locked

\* C33 (state part): in the ledger a participation count of 1 or more
\* comes with the deployment flag; no batch has a member in both its issue
\* and its commend list, and none has a member twice in the list its name
\* loop runs over.
C33_IssueOrCommend ==
    /\ \A m \in DOMAIN iron.members :
          iron.members[m].numDeployments >= 1 => iron.members[m].deployment
    /\ \A m \in DOMAIN ironFile.members :
          ironFile.members[m].numDeployments >= 1 => ironFile.members[m].deployment
    /\ \A b \in Batches : \A m \in Members :
          /\ ~(Includes(batch[b].attemptTo.issue, m)
                 /\ Includes(batch[b].attemptTo.commend, m))
          /\ Occurrences(NameList(batch[b]), m) <= 1
          /\ (batch[b].type = "deployment"
                 /\ Includes(batch[b].attemptTo.issue, m)
                 /\ batch[b].writes = <<>>)
                => ReadIronValue(iron, m).numDeployments = 0

\* C33 (step part): a batch changes the name of a member at most once, and
\* the change raises the count in the name by one.
C33_RenameStep ==
    \A b \in Batches : \A m \in batch'[b].renamed \ batch[b].renamed :
        /\ \A x \in Members \ {m} : displayName'[x] = displayName[x]
        /\ displayName'[m] # displayName[m] =>
              /\ ParseUsername(displayName'[m]).ok
              /\ CountOf(displayName'[m]) = CountOf(displayName[m]) + 1

\* C33 (frame part): the names are changed by the setNickname of a batch and
\* by the officers only.
C33_OtherStep ==
    (\A b \in Batches : batch'[b].renamed = batch[b].renamed)
        => \A m \in Members :
              displayName'[m] # displayName[m] => ~ParseUsername(displayName'[m]).ok
                                                   \/ CountOf(displayName'[m]) = Envoy

C34_QueuedEventStep ==
    \A v \in VoiceHandlers :
        (pc[v] = "locked" /\ ~rec.loaded) => lastCall'.res # "InvalidTransition"

C34_NoInvalidTransition == [][C34_QueuedEventStep]_vars

\* The double join: the event of m1 joining waited for the lock while
\* startDeployment seeded m1, and its reportJoin found m1 open.
C34_DoubleJoin ==
    /\ ~rec.loaded
    /\ lastCall = Call("reportJoin", "InvalidTransition")
    /\ event["v1"] = [member |-> "m1", join |-> TRUE]
    /\ "m1" \in Open(act)
    /\ alive = "fatal"

\* C35: when every batch has returned and each has changed the name of a
\* member, and no officer has changed it, the count in the name is the
\* initial count plus the number of batches.
C35_NoLostUpdate ==
    \A m \in Members :
        (/\ \A b \in Batches : batch[b].at = "return" /\ m \in batch[b].renamed
         /\ ParseUsername(displayName[m]).ok
         /\ CountOf(displayName[m]) >= 0)
            => CountOf(displayName[m]) = CountOf(origName[m]) + Cardinality(Batches)

\* The lost update: both batches granted m1, both set its name, and
\* '[ IV ] Trooper' stands at '[ V ] Trooper'.
C35_LostUpdate ==
    /\ \A b \in Batches : batch[b].at = "return" /\ batch[b].results.issued = <<"m1">>
    /\ Cardinality({r \in issuedLog : r.m = "m1"}) = 2
    /\ origName["m1"] = TrooperIV
    /\ displayName["m1"] = TrooperV

\* Both batches granted m1, the second read the name the first had set, and
\* '[ IV ] Trooper' stands at a count of 6.
C35_BothCounted ==
    /\ \A b \in Batches : batch[b].at = "return" /\ batch[b].results.issued = <<"m1">>
    /\ origName["m1"] = TrooperIV
    /\ CountOf(displayName["m1"]) = 6

\* C36: whenever the session lock is free and the session is inactive, no
\* member has a non-null joined.
C36_InactiveNoneOpen ==
    (lock["dep"].locked = NoKey /\ ~act.active) => Open(act) = {}

\* runRecovery ran after the session it was flagged for had been ended, and
\* opened the member it found in a voice channel.
C36_OpenedAfterEnd ==
    /\ lastCall = Call("runRecovery.end", "ok")
    /\ lock["dep"].locked = NoKey
    /\ ~act.active /\ actFile = act
    /\ "m1" \in present /\ "m1" \in Open(act)

\* C37: when runRecovery returns or throws, the lock it acquired is released.
C37_ReturnStep ==
    lastCall'.op = "runRecovery.end" => ~TryKey(lock'["dep"], rec.key)
C37_RecoveryReleases == [][C37_ReturnStep]_vars

\* runRecovery returned because a fetch failed, or threw because the channel
\* is not a category, and its key still locks the store.
C37_ReturnedLocked ==
    /\ lastCall.op = "runRecovery.end" /\ lastCall.res \in {"notFound", "NotCategory"}
    /\ pc[Recovery] \in {"done", "aborted"}
    /\ TryKey(lock["dep"], rec.key)
    /\ lock["dep"].timeout = rec.key

\* runRecovery reconciled the records and its unlock released the lock.
C37_ReturnedUnlocked ==
    /\ lastCall = Call("runRecovery.end", "ok")
    /\ pc[Recovery] = "done"
    /\ rec.key \in released
    /\ ~TryKey(lock["dep"], rec.key)

\* C38: a reportJoin or reportLeave that fails leaves the document unchanged
\* in memory and in the file.
C38_FailedStep ==
    (lastCall'.op \in {"reportJoin", "reportLeave"} /\ lastCall'.res # "ok")
        => act' = act /\ actFile' = actFile
C38_FailedUnchanged == [][C38_FailedStep]_vars

\* A rejected reportLeave created the record of m1 in memory only, and a
\* later getQualifiedMembers returned m1.
C38_RecordCreated ==
    /\ lastCall.op = "getQualifiedMembers" /\ lastCall.res = "ok"
    /\ "m1" \in lastCall.value.particpated
    /\ "m1" \notin DOMAIN actFile.members
    /\ act.members["m1"] = NewRecord

\* The file is left alone by every failed report.
C38_FileStep ==
    (lastCall'.op \in {"reportJoin", "reportLeave"} /\ lastCall'.res # "ok")
        => actFile' = actFile
C38_FailedFileUnchanged == [][C38_FileStep]_vars

\* C39: as long as no countdown expires (every holder unlocks with its key in
\* time), every lock() call returns its key to the caller, whether the call
\* was granted at once or queued, on the Lock and on the IronLock.
C39_LockLiveness ==
    <>(alive # "up") \/ \A c \in Callers : (pc[c] \in {"waiting", "granted"}) ~> Holds(c)

\* An unlock handed the ledger lock over to a caller that waited, while
\* another caller still waits, after the week changed.
C39_Witness ==
    /\ target = "iron" /\ alive = "up"
    /\ lastCall = Call("unlock", "ok")
    /\ day > StartDay
    /\ \E c \in Callers :
          /\ pc[c] = "granted" /\ inflight[c] = lock["iron"].locked
          /\ Len(lock["iron"].waiting) = 1

\* C40: a batch that has returned or thrown does not hold the ledger lock.
C40_ReleasedAtEnd ==
    \A b \in Batches :
        batch[b].at \in {"return", "rejected"} => ~TryKey(lock["iron"], batch[b].key)

\* The notification for a malformed name threw under the lock: the batch
\* has ended, its key still locks the ledger, and the other batch waits.
C40_ThrownLocked ==
    \E b \in Batches :
        /\ batch[b].at = "rejected" /\ batch[b].error = "logToChannel"
        /\ batch[b].writes = <<>>
        /\ TryKey(lock["iron"], batch[b].key)
        /\ Len(lock["iron"].waiting) = 1

\* A batch that returned does not hold the lock.
C40_ReleasedAtReturn ==
    \A b \in Batches :
        batch[b].at = "return" => ~TryKey(lock["iron"], batch[b].key)

====
